---- MODULE Spec2Model ----
(***************************************************************************)
(* Model of the batch cell-processing engine of excel-ai-assistant         *)
(* (src/app/ui/components/batch_processor.py).                             *)
(*                                                                         *)
(* Three kinds of thread take part:                                        *)
(*   - the UI thread calls process_batches and cancel_processing and may   *)
(*     destroy the Tk root;                                                *)
(*   - the asyncio loop thread runs the coroutines _process_batches_async, *)
(*     one step at a time, a step being split at every read of the shared  *)
(*     flag processing_cancelled;                                          *)
(*   - the default executor runs api_manager.process_single_cell.          *)
(***************************************************************************)
EXTENDS Integers, Sequences, FiniteSets

\* ---------------------------------------------------------------- bounds
MaxRuns == 2
MaxCells == 2
MaxBatch == 2
MaxCancels == 1
MaxLimit == 2
MaxCalls == 3
MaxTime == 125
MaxLines == 2
MaxRows == 2
MaxUpdates == 2
MaxOps == 2
MaxRecent == 3
MaxPaths == 4

Runs == 1..MaxRuns
None == "None"

\* max_requests_per_minute as __init__ sets it (api_manager.py line 41).
DefaultLimit == 20

\* ---------------------------------------------------------------- inputs
Cols == <<"A", "B", "C", "D">>

\* A Cell Task with the 'row', 'col' and 'content' keys of the docstring.
GoodCell(i) == [row |-> i - 1, col |-> Cols[((i - 1) % 4) + 1], content |-> "x"]

\* A dictionary without its 'row' key: cell['row'] raises KeyError.
BadCell(i) == [col |-> Cols[((i - 1) % 4) + 1], content |-> "x"]

HasKeys(cell) == "row" \in DOMAIN cell /\ "col" \in DOMAIN cell

\* The task lists submitted: n cells, at most one of them (bad) malformed.
TaskList(n, bad) == [i \in 1..n |-> IF i = bad THEN BadCell(i) ELSE GoodCell(i)]

TaskLists == {TaskList(n, bad) : n \in 0..MaxCells, bad \in 0..MaxCells}

BatchSizes == 0..MaxBatch

\* What one api_manager.process_single_cell call can do.
Outcomes == {"ok", "fail", "raise"}

WellFormed(cells) == \A i \in 1..Len(cells) : HasKeys(cells[i])

VARIABLES
    processing_cancelled,   \* BatchProcessor.processing_cancelled
    current_task,           \* BatchProcessor.current_task: a run, or 0 for None
    uiAlive,                \* the Tk root still accepts root.after
    running,                \* the run whose coroutine holds the loop thread, or 0
    run,                    \* run[r]: the frame of the coroutine of run r
    task,                   \* task[r]: the future and the asyncio task of run r
    started,                \* started[r]: positions of the cells sent to the client
    inflight,               \* inflight[r]: positions whose call is executing
    ret,                    \* ret[r]: outcome handed to the awaiting coroutine
    progress,               \* progress[r]: progress updates scheduled, in order
    completions,            \* completions[r]: completion callbacks scheduled
    sawCancel,              \* sawCancel[r]: cancel_processing ran while r in flight
    cancelCalls,            \* number of cancel_processing calls so far
    delivered,              \* delivered[r]: callbacks of run r Tk has run so far
    invoked,                \* invoked[r]: times the completion callback body ran
    sinkRaised,             \* sinkRaised[r]: a callback body of run r has raised
    leftWrapper,            \* leftWrapper[r]: an exception left a safe_callback
    api_type,               \* APIManager.api_type
    api_key,                \* APIManager.api_key ("" when none was supplied)
    client,                 \* APIManager.client is set
    request_count,          \* request_count of the backend variant in use
    request_start_time,     \* request_start_time of the backend variant in use
    max_requests_per_minute, \* max_requests_per_minute of that variant
    now,                    \* time.time(), in seconds
    call,                   \* the last process_single_cell invocation
    response,               \* the lines response.iter_lines() will yield
    reader,                 \* the reading of that stream: lines taken, result
    df,                     \* DataManager.df
    file_path,              \* DataManager.file_path ("" for None)
    modified,               \* DataManager.modified
    disk,                   \* the table held by the file at file_path
    op,                     \* the last DataManager operation and what it returned
    recent_files,           \* AppConfig 'recent_files'
    max_recent_files,       \* AppConfig 'max_recent_files'
    prompts                 \* AppConfig 'prompts': template name -> text

engineVars == <<processing_cancelled, current_task, uiAlive, running, run, task,
                started, inflight, ret, progress, completions, sawCancel,
                cancelCalls>>

sinkVars == <<delivered, invoked, sinkRaised, leftWrapper>>

apiVars == <<api_type, api_key, client, request_count, request_start_time,
             max_requests_per_minute, now, call>>

streamVars == <<response, reader>>

\* What neither the engine nor a whole client call touches.
storeVars == <<df, file_path, modified, disk, op>>

configVars == <<recent_files, max_recent_files, prompts>>

restVars == <<streamVars, storeVars, configVars>>

vars == <<engineVars, sinkVars, apiVars, restVars>>

\* ------------------------------------------------------------ pure parts
Min(a, b) == IF a < b THEN a ELSE b

\* A partition that always has one more batch than full ones.
NumBatchesPlusOne(cells, batch_size) == Len(cells) \div batch_size + 1

\* len(batches) of line 93, for batch_size >= 1.
NumBatches(cells, batch_size) == (Len(cells) + batch_size - 1) \div batch_size

\* batches[batch_idx] of line 93 (batch_idx from 0).
Batch(cells, batch_size, batch_idx) ==
    SubSeq(cells, batch_idx * batch_size + 1,
           Min((batch_idx + 1) * batch_size, Len(cells)))

\* Position in cells (from 1) of the cell at cell_idx of batch batch_idx.
Position(batch_size, batch_idx, cell_idx) == batch_idx * batch_size + cell_idx + 1

\* The (success, result, error) tuple _process_single_cell_async returns.
CellOutcome(o) ==
    CASE o = "ok"    -> [success |-> TRUE,  result |-> "R",  error |-> None]
      [] o = "fail"  -> [success |-> FALSE, result |-> None, error |-> "message"]
      [] o = "raise" -> [success |-> FALSE, result |-> None, error |-> "message"]

\* A wrapper without its try/except: an exception of the call leaves it.
EscapesOnRaise(o) == o = "raise"

\* Lines 178-196: does an outcome of the call leave _process_single_cell_async
\* as an exception? No: except Exception turns it into (False, None, str(e)).
Escapes(o) == FALSE

\* A cell_result that records no error message.
CellResultDropsError(cell, t) ==
    [row |-> cell.row, col |-> cell.col,
     success |-> t.success, result |-> t.result, error |-> None]

\* cell_result of lines 115-121.
CellResult(cell, t) ==
    [row |-> cell.row, col |-> cell.col,
     success |-> t.success, result |-> t.result, error |-> t.error]

\* Counters that take every processed cell for a success.
CountAllSuccess(f, success) ==
    [f EXCEPT !.processed = @ + 1, !.success_count = @ + 1]

\* Counters that leave processed alone when the cell failed.
CountSkipsFailed(f, success) ==
    [f EXCEPT !.processed = IF success THEN @ + 1 ELSE @,
              !.success_count = IF success THEN @ + 1 ELSE @,
              !.error_count = IF success THEN @ ELSE @ + 1]

\* Counters of lines 125-129.
Count(f, success) ==
    [f EXCEPT !.processed = @ + 1,
              !.success_count = IF success THEN @ + 1 ELSE @,
              !.error_count = IF success THEN @ ELSE @ + 1]

\* The batch put in front of the results instead of behind them.
ExtendFront(all_results, batch_results) == batch_results \o all_results

\* all_results.extend(batch_results) of line 141.
Extend(all_results, batch_results) == all_results \o batch_results

Status(kind, k, n, i, m, msg) ==
    [kind |-> kind, batch |-> k, batches |-> n, cur |-> i, of |-> m, msg |-> msg]

StBatchStart(k, n) == Status("Processing batch", k, n, 0, 0, "")
StCells(k, n, i, m) == Status("Processing batch cells", k, n, i, m, "")
StBatchDone(k, n) == Status("Completed batch", k, n, 0, 0, "")
StCompleted == Status("Processing completed", 0, 0, 0, 0, "")
StCancelled == Status("Processing cancelled", 0, 0, 0, 0, "")
StError(msg) == Status("Error", 0, 0, 0, 0, msg)

\* The arguments one progress callback is scheduled with.
Update(f, status) ==
    [processed |-> f.processed, success |-> f.success_count,
     error |-> f.error_count, total |-> Len(f.cells), status |-> status]

\* The arguments the completion callback is scheduled with.
Completion(f) ==
    [results |-> f.all_results, success_count |-> f.success_count,
     error_count |-> f.error_count]

NewFrame ==
    [pc |-> "idle", cells |-> <<>>, batch_size |-> 0,
     processed |-> 0, success_count |-> 0, error_count |-> 0,
     all_results |-> <<>>, batch_results |-> <<>>,
     batch_idx |-> 0, cell_idx |-> 0,
     \* history: how the batch loop was left, whether a break was taken, and
     \* whether another run was in flight when this one was submitted
     exit |-> "none", broke |-> FALSE, overlapped |-> FALSE]

NewTask == [fut |-> "none", cancelQ |-> "none"]

Ended(r) == run[r].pc \in {"done", "escaped"}
InFlight(r) == run[r].pc \notin {"idle", "done", "escaped"}

\* No callback has run yet.
SinkInit ==
    /\ delivered = [r \in Runs |-> 0]
    /\ invoked = [r \in Runs |-> 0]
    /\ sinkRaised = [r \in Runs |-> FALSE]
    /\ leftWrapper = [r \in Runs |-> FALSE]

\* An Optional[str]: None or a text.
NoText == [some |-> FALSE, text |-> <<>>]
Text(t) == [some |-> TRUE, text |-> t]

\* The (success, result, error) tuples process_single_cell returns.
Ok(text) == [success |-> TRUE, result |-> Text(text), error |-> None]
Fail(message) == [success |-> FALSE, result |-> NoText, error |-> message]

RateLimited == Fail("Rate limit exceeded. Please try again later.")
NotInitialized == Fail("API client not initialized")

\* No tuple returned yet.
NoReturn == [success |-> FALSE, result |-> NoText, error |-> "pending"]

\* The record of the latest process_single_cell invocation, before any.
NoCall ==
    [n |-> 0, phase |-> "idle", context |-> [given |-> FALSE, items |-> <<>>],
     prompt |-> <<>>, requests |-> 0, ret |-> NoReturn, checked |-> FALSE, raised |-> FALSE,
     backend |-> "none", steady |-> TRUE, granted |-> 0, prevFault |-> FALSE,
     sent |-> 0]

\* APIManager() as main_window.py constructs it before any key is known.
ApiDefault ==
    /\ api_type = "openai"
    /\ api_key = ""
    /\ client = FALSE
    /\ request_count = 0
    /\ request_start_time = 0
    /\ max_requests_per_minute = DefaultLimit
    /\ now = 0
    /\ call = NoCall

\* No response is being read.
NoReader == [pc |-> "idle", read |-> 0, result |-> <<>>, ret |-> NoReturn]

StreamIdle ==
    /\ response = <<>>
    /\ reader = NoReader

\* df is None.
NoTable == [loaded |-> FALSE, columns |-> <<>>, cells |-> <<>>]

\* No DataManager operation yet.
NoOp == [n |-> 0, kind |-> "none"]

\* DataManager.__init__, lines 17-23.
StoreInit ==
    /\ df = NoTable
    /\ file_path = ""
    /\ modified = FALSE
    /\ disk = NoTable
    /\ op = NoOp

\* 'max_recent_files' of the default configuration (config.py line 28).
DefaultMaxRecent == 10

\* The names of the templates under 'prompts' in AppConfig.__init__ (lines
\* 58-113).
BuiltInNames ==
    {"Capitalize", "To Uppercase", "To Lowercase", "Sentence Case",
     "Title Case", "Remove Extra Spaces", "Format Date",
     "Format Phone Number", "Format Currency", "Format Percentage",
     "Extract Numbers", "Format Address", "Format Email", "Summarize",
     "Expand", "Bullet Points", "Fix Grammar", "Simplify", "Formalize",
     "Casualize", "Format JSON", "Format XML", "Format CSV",
     "HTML to Text", "Markdown to Text", "Clean Code",
     "Translate to English", "Translate to Arabic", "Translate to Hebrew",
     "Remove Duplicates", "Remove HTML Tags", "Fix Encoding Issues",
     "Fill Blank", "Standardize Format", "Extract Dates", "Split Name",
     "Format Name", "Extract Initials", "Convert to Citation"}

\* The names of default_prompts in restore_defaults (lines 294-348).
RestoredNames ==
    {"Capitalize", "To Uppercase", "To Lowercase", "Sentence Case",
     "Title Case", "Remove Extra Spaces", "Format Date",
     "Format Phone Number", "Format Currency", "Format Percentage",
     "Extract Numbers", "Format Address", "Format Email", "Summarize",
     "Expand", "Bullet Points", "Fix Grammar", "Simplify", "Formalize",
     "Casualize", "Format JSON", "Format XML", "Format CSV",
     "HTML to Text", "Markdown to Text", "Clean Code",
     "Translate to English", "Translate to Arabic", "Translate to Hebrew",
     "Remove Duplicates", "Remove HTML Tags", "Fix Encoding Issues",
     "Fill Blank", "Standardize Format", "Extract Dates", "Split Name",
     "Format Name", "Convert to Citation"}

\* The text a built-in template has in the source (the same in both
\* dictionaries for every name they share), and a text written by the user.
BuiltInText(name) == [builtin |-> TRUE, of |-> name]
CustomText == [builtin |-> FALSE, of |-> "Custom prompt"]

\* 'prompts' of a fresh AppConfig.
DefaultPrompts == [name \in BuiltInNames |-> BuiltInText(name)]

\* AppConfig.__init__, lines 27-28 and 57-114.
ConfigInit ==
    /\ recent_files = <<>>
    /\ max_recent_files = DefaultMaxRecent
    /\ prompts = DefaultPrompts

\* The components outside a specification, as constructed.
RestInit == StreamIdle /\ StoreInit /\ ConfigInit

\* BatchProcessor.__init__, lines 17-23, and no run submitted yet.
EngineInit ==
    /\ processing_cancelled = FALSE
    /\ current_task = 0
    /\ uiAlive = TRUE
    /\ running = 0
    /\ run = [r \in Runs |-> NewFrame]
    /\ task = [r \in Runs |-> NewTask]
    /\ started = [r \in Runs |-> <<>>]
    /\ inflight = [r \in Runs |-> {}]
    /\ ret = [r \in Runs |-> None]
    /\ progress = [r \in Runs |-> <<>>]
    /\ completions = [r \in Runs |-> <<>>]
    /\ sawCancel = [r \in Runs |-> FALSE]
    /\ cancelCalls = 0

Init ==
    /\ EngineInit
    /\ SinkInit
    /\ ApiDefault
    /\ RestInit

\* ------------------------------------------------- asyncio task plumbing
\* The coroutine reaches an await: it gives the loop thread back; a
\* Task.cancel queued behind the step that just ran is now next in the queue.
Suspend(t) == [t EXCEPT !.cancelQ = IF @ = "afterStep" THEN "next" ELSE @]

\* The coroutine returns or raises: the task is done, a queued Task.cancel
\* finds it done and does nothing.
Finished(t) ==
    [t EXCEPT !.cancelQ = "none", !.fut = IF @ = "pending" THEN "done" ELSE @]

\* self.root.after of lines 219, 249 and 271 raises once the root is destroyed.
RootAfterRaises == ~uiAlive

\* A callback handed to root.after(0, ...) stands in Tk's queue behind the n
\* progress updates the run has handed over before it.
Queued(c, n) ==
    [results |-> c.results, success_count |-> c.success_count,
     error_count |-> c.error_count, after |-> n]

\* A terminal path that schedules the completion callback first and the
\* final progress update behind it.
TerminateCompletionFirst(r, f, status) ==
    /\ IF RootAfterRaises
          THEN /\ run' = [run EXCEPT ![r] = [f EXCEPT !.pc = "escaped"]]
               /\ UNCHANGED <<progress, completions>>
          ELSE /\ run' = [run EXCEPT ![r] = [f EXCEPT !.pc = "done"]]
               /\ completions' = [completions EXCEPT ![r] =
                      Append(@, Queued(Completion(f), Len(progress[r])))]
               /\ progress' = [progress EXCEPT ![r] = Append(@, Update(f, status))]
    /\ task' = [task EXCEPT ![r] = Finished(@)]
    /\ ret' = [ret EXCEPT ![r] = None]
    /\ running' = 0

\* _update_progress then _call_completion, the tail of each of the three
\* terminal paths (lines 152-155, 159-161, 166-167). When root.after raises
\* on the normal path the Exception handler runs it again and raises again:
\* the exception leaves the coroutine.
Terminate(r, f, status) ==
    /\ IF RootAfterRaises
          THEN /\ run' = [run EXCEPT ![r] = [f EXCEPT !.pc = "escaped"]]
               /\ UNCHANGED <<progress, completions>>
          ELSE /\ run' = [run EXCEPT ![r] = [f EXCEPT !.pc = "done"]]
               /\ progress' = [progress EXCEPT ![r] = Append(@, Update(f, status))]
               /\ completions' = [completions EXCEPT ![r] =
                      Append(@, Queued(Completion(f), Len(progress'[r])))]
    /\ task' = [task EXCEPT ![r] = Finished(@)]
    /\ ret' = [ret EXCEPT ![r] = None]
    /\ running' = 0

\* except asyncio.CancelledError, lines 157-161.
OnCancelled(r, f) == Terminate(r, [f EXCEPT !.exit = "cancel"], StCancelled)

\* except Exception as e, lines 163-167.
OnException(r, f, msg) == Terminate(r, [f EXCEPT !.exit = "error"], StError(msg))

\* Lines 150-155: the status read from the shared flag.
FinalStatus(cancelled) == IF ~cancelled THEN StCompleted ELSE StCancelled

\* Lines 140-148, reached when the inner loop is exhausted or left by break.
EndBatch(r, f) ==
    LET f1 == [f EXCEPT !.all_results = Extend(@, f.batch_results)]
        n  == NumBatches(f.cells, f.batch_size)
    IN  IF RootAfterRaises
           THEN OnException(r, f1, "root.after")
           ELSE /\ run' = [run EXCEPT ![r] = [f1 EXCEPT !.pc = "sleepBatch"]]
                /\ progress' = [progress EXCEPT ![r] =
                       Append(@, Update(f1, StBatchDone(f.batch_idx + 1, n)))]
                /\ task' = [task EXCEPT ![r] = Suspend(@)]
                /\ ret' = [ret EXCEPT ![r] = None]
                /\ running' = 0
                /\ UNCHANGED completions

\* Where a Task.cancel queued now stands: behind the step of the task that is
\* running or already queued ("afterStep"), or ahead of any later step ("next").
CancelSlots(r) ==
    IF running = r \/ run[r].pc \in {"new", "batchCheck", "cellCheck", "final"}
       THEN {"afterStep"}
    ELSE IF run[r].pc = "awaitCell"
       THEN IF ret[r] # None THEN {"afterStep"} ELSE {"next"}
    ELSE {"afterStep", "next"}

\* ------------------------------------------------------------ UI thread
\* A process_batches that cancels the task of the run before it, as a
\* single-flight engine would.
SubmitCancelsPrevious(r, cs, bs) ==
    /\ uiAlive
    /\ run[r].pc = "idle"
    /\ IF r = 1 THEN TRUE ELSE run[r - 1].pc # "idle"
    /\ processing_cancelled' = FALSE
    /\ current_task' = r
    /\ run' = [run EXCEPT ![r] =
                  [NewFrame EXCEPT !.pc = "new", !.cells = cs, !.batch_size = bs,
                                   !.overlapped = \E q \in Runs : InFlight(q)]]
    /\ IF current_task # 0 /\ task[current_task].fut = "pending"
          THEN \E q \in CancelSlots(current_task) :
                  task' = [task EXCEPT
                              ![current_task] = [fut |-> "cancelled", cancelQ |-> q],
                              ![r] = [fut |-> "pending", cancelQ |-> "none"]]
          ELSE task' = [task EXCEPT ![r] = [fut |-> "pending", cancelQ |-> "none"]]
    /\ UNCHANGED <<uiAlive, running, started, inflight, ret, progress,
                   completions, sawCancel, cancelCalls, sinkVars, apiVars, restVars>>

\* A process_batches that leaves the flag as the last cancel_processing set
\* it.
SubmitKeepsFlag(r, cs, bs) ==
    /\ uiAlive
    /\ run[r].pc = "idle"
    /\ IF r = 1 THEN TRUE ELSE run[r - 1].pc # "idle"
    /\ current_task' = r
    /\ run' = [run EXCEPT ![r] =
                  [NewFrame EXCEPT !.pc = "new", !.cells = cs, !.batch_size = bs,
                                   !.overlapped = \E q \in Runs : InFlight(q)]]
    /\ task' = [task EXCEPT ![r] = [fut |-> "pending", cancelQ |-> "none"]]
    /\ UNCHANGED <<processing_cancelled, uiAlive, running, started, inflight,
                   ret, progress, completions, sawCancel, cancelCalls,
                   sinkVars, apiVars, restVars>>

\* process_batches, lines 49-64.
Submit(r, cs, bs) ==
    /\ uiAlive
    /\ run[r].pc = "idle"
    /\ IF r = 1 THEN TRUE ELSE run[r - 1].pc # "idle"
    /\ processing_cancelled' = FALSE
    /\ current_task' = r
    /\ run' = [run EXCEPT ![r] =
                  [NewFrame EXCEPT !.pc = "new", !.cells = cs, !.batch_size = bs,
                                   !.overlapped = \E q \in Runs : InFlight(q)]]
    /\ task' = [task EXCEPT ![r] = [fut |-> "pending", cancelQ |-> "none"]]
    /\ UNCHANGED <<uiAlive, running, started, inflight, ret, progress,
                   completions, sawCancel, cancelCalls, sinkVars, apiVars, restVars>>

\* cancel_processing, lines 66-71. The future's cancel() queues Task.cancel
\* on the loop, behind a step of the task that is already queued or running.
CancelProcessing ==
    /\ uiAlive
    /\ cancelCalls < MaxCancels
    /\ processing_cancelled' = TRUE
    /\ IF current_task # 0 /\ task[current_task].fut = "pending"
          THEN \E q \in CancelSlots(current_task) :
                  task' = [task EXCEPT ![current_task] =
                              [fut |-> "cancelled", cancelQ |-> q]]
          ELSE task' = task
    /\ sawCancel' = [r \in Runs |-> sawCancel[r] \/ InFlight(r)]
    /\ cancelCalls' = cancelCalls + 1
    /\ UNCHANGED <<current_task, uiAlive, running, run, started, inflight, ret,
                   progress, completions, sinkVars, apiVars, restVars>>

\* The root window is destroyed while a run is in flight (File > Exit,
\* main_window.py line 97): root.after raises from then on.
DestroyUI ==
    /\ uiAlive
    /\ \E r \in Runs : InFlight(r)
    /\ uiAlive' = FALSE
    /\ UNCHANGED <<processing_cancelled, current_task, running, run, task, started,
                   inflight, ret, progress, completions, sawCancel, cancelCalls, sinkVars, apiVars, restVars>>

\* ----------------------------------------------------------- loop thread
\* The frame variables every loop action leaves alone.
LoopFrame == UNCHANGED <<processing_cancelled, current_task, uiAlive, sawCancel,
                         cancelCalls, sinkVars, apiVars, restVars>>

\* First step of the coroutine, lines 86-95: the counters, the partition
\* (range() raises ValueError on a step of 0) and the entry of the batch loop.
Start(r) ==
    LET f == run[r] IN
    /\ running = 0
    /\ f.pc = "new"
    /\ IF f.batch_size = 0
          THEN OnException(r, f, "range() arg 3 must not be zero")
          ELSE /\ run' = [run EXCEPT ![r] =
                     IF NumBatches(f.cells, f.batch_size) = 0
                        THEN [f EXCEPT !.pc = "final", !.exit = "exhausted"]
                        ELSE [f EXCEPT !.pc = "batchCheck"]]
               /\ running' = r
               /\ UNCHANGED <<task, ret, progress, completions>>
    /\ UNCHANGED <<started, inflight>>
    /\ LoopFrame

\* Lines 96-104: the batch boundary. The flag is read; a batch that starts
\* announces itself and resets batch_results.
BatchCheck(r) ==
    LET f == run[r]
        n == NumBatches(f.cells, f.batch_size)
    IN
    /\ running = r
    /\ f.pc = "batchCheck"
    /\ IF processing_cancelled
          THEN /\ run' = [run EXCEPT ![r] =
                     [f EXCEPT !.pc = "final", !.exit = "flag", !.broke = TRUE]]
               /\ UNCHANGED <<task, ret, running, progress, completions>>
          ELSE IF RootAfterRaises
          THEN OnException(r, f, "root.after")
          ELSE /\ run' = [run EXCEPT ![r] =
                     [f EXCEPT !.pc = "cellCheck", !.batch_results = <<>>,
                               !.cell_idx = 0]]
               /\ progress' = [progress EXCEPT ![r] =
                     Append(@, Update(f, StBatchStart(f.batch_idx + 1, n)))]
               /\ UNCHANGED <<task, ret, running, completions>>
    /\ UNCHANGED <<started, inflight>>
    /\ LoopFrame

\* A task boundary that hands the task to the executor without awaiting it
\* and goes straight on to the next task of the batch.
CellCheckNoAwait(r) ==
    LET f == run[r]
        p == Position(f.batch_size, f.batch_idx, f.cell_idx)
        m == Len(Batch(f.cells, f.batch_size, f.batch_idx))
    IN
    /\ running = r
    /\ f.pc = "cellCheck"
    /\ IF processing_cancelled \/ f.cell_idx >= m
          THEN /\ EndBatch(r, f)
               /\ UNCHANGED <<started, inflight>>
          ELSE /\ run' = [run EXCEPT ![r] = [f EXCEPT !.cell_idx = @ + 1]]
               /\ started' = [started EXCEPT ![r] = Append(@, p)]
               /\ inflight' = [inflight EXCEPT ![r] = @ \cup {p}]
               /\ UNCHANGED <<task, running, ret, progress, completions>>
    /\ LoopFrame

\* Lines 106-112 and 179-191: the task boundary. The flag is read; a task
\* that starts is handed to the executor and the coroutine awaits it.
CellCheck(r) ==
    LET f == run[r]
        p == Position(f.batch_size, f.batch_idx, f.cell_idx)
    IN
    /\ running = r
    /\ f.pc = "cellCheck"
    /\ IF processing_cancelled
          THEN /\ EndBatch(r, [f EXCEPT !.broke = TRUE])
               /\ UNCHANGED <<started, inflight>>
          ELSE /\ run' = [run EXCEPT ![r] = [f EXCEPT !.pc = "awaitCell"]]
               /\ started' = [started EXCEPT ![r] = Append(@, p)]
               /\ inflight' = [inflight EXCEPT ![r] = @ \cup {p}]
               /\ task' = [task EXCEPT ![r] = Suspend(@)]
               /\ running' = 0
               /\ UNCHANGED <<ret, progress, completions>>
    /\ LoopFrame

\* api_manager.process_single_cell returns or raises in its executor thread.
\* The coroutine that still awaits it is woken with the outcome; a call whose
\* coroutine was cancelled meanwhile just ends.
ExecutorDone(r, p, o) ==
    /\ p \in inflight[r]
    /\ inflight' = [inflight EXCEPT ![r] = @ \ {p}]
    /\ IF run[r].pc = "awaitCell" /\ task[r].cancelQ # "next"
          THEN ret' = [ret EXCEPT ![r] = o]
          ELSE o = "ok" /\ ret' = ret
    /\ UNCHANGED <<running, run, task, started, progress, completions>>
    /\ LoopFrame

\* Lines 110-138 after the await: the Cell Result, the counters, the progress
\* update of the cell, then the pacing delay.
ResumeCell(r) ==
    LET f == run[r]
        p == Position(f.batch_size, f.batch_idx, f.cell_idx)
        cell == f.cells[p]
        t == CellOutcome(ret[r])
        n == NumBatches(f.cells, f.batch_size)
        m == Len(Batch(f.cells, f.batch_size, f.batch_idx))
    IN
    /\ running = 0
    /\ f.pc = "awaitCell"
    /\ ret[r] # None
    /\ task[r].cancelQ # "next"
    /\ IF Escapes(ret[r])
          THEN OnException(r, f, "exception")
          ELSE IF ~HasKeys(cell)
          THEN OnException(r, f, "KeyError")
          ELSE LET f1 == Count([f EXCEPT !.batch_results =
                                    Append(@, CellResult(cell, t))], t.success)
               IN  IF RootAfterRaises
                      THEN OnException(r, f1, "root.after")
                      ELSE /\ run' = [run EXCEPT ![r] = [f1 EXCEPT !.pc = "sleepCell"]]
                           /\ progress' = [progress EXCEPT ![r] = Append(@,
                                 Update(f1, StCells(f.batch_idx + 1, n,
                                                    f.cell_idx + 1, m)))]
                           /\ task' = [task EXCEPT ![r] = Suspend(@)]
                           /\ ret' = [ret EXCEPT ![r] = None]
                           /\ UNCHANGED <<running, completions>>
    /\ UNCHANGED <<started, inflight>>
    /\ LoopFrame

\* The timer of the pacing delay of line 138 has fired: the next task of the batch, or the end
\* of the batch (lines 140-148).
NextCell(r) ==
    LET f == [run[r] EXCEPT !.cell_idx = @ + 1]
        m == Len(Batch(f.cells, f.batch_size, f.batch_idx))
    IN
    /\ running = 0
    /\ run[r].pc = "sleepCell"
    /\ task[r].cancelQ # "next"
    /\ IF f.cell_idx < m
          THEN /\ run' = [run EXCEPT ![r] = [f EXCEPT !.pc = "cellCheck"]]
               /\ running' = r
               /\ UNCHANGED <<task, ret, progress, completions>>
          ELSE EndBatch(r, f)
    /\ UNCHANGED <<started, inflight>>
    /\ LoopFrame

\* The timer of the delay of line 148 has fired: the next batch, or the end of the loop.
NextBatch(r) ==
    LET f == [run[r] EXCEPT !.batch_idx = @ + 1]
        n == NumBatches(f.cells, f.batch_size)
    IN
    /\ running = 0
    /\ run[r].pc = "sleepBatch"
    /\ task[r].cancelQ # "next"
    /\ run' = [run EXCEPT ![r] =
          IF f.batch_idx < n
             THEN [f EXCEPT !.pc = "batchCheck"]
             ELSE [f EXCEPT !.pc = "final", !.exit = "exhausted"]]
    /\ running' = r
    /\ UNCHANGED <<task, started, inflight, ret, progress, completions>>
    /\ LoopFrame

\* Lines 150-155: the final update, its status read from the flag, and the
\* completion callback.
Final(r) ==
    /\ running = r
    /\ run[r].pc = "final"
    /\ Terminate(r, run[r], FinalStatus(processing_cancelled))
    /\ UNCHANGED <<started, inflight>>
    /\ LoopFrame

\* The loop runs the queued Task.cancel of a suspended task: CancelledError
\* is raised at its await (lines 110, 138 or 148) and caught at line 157.
DeliverCancel(r) ==
    /\ running = 0
    /\ task[r].cancelQ = "next"
    /\ run[r].pc \in {"awaitCell", "sleepCell", "sleepBatch"}
    /\ OnCancelled(r, run[r])
    /\ UNCHANGED <<started, inflight>>
    /\ LoopFrame

\* ------------------------------------------------- callbacks in Tk's loop
\* What the caller's callback body does when it is run.
SinkOutcomes == {"ok", "raise"}

\* A wrapper without its try/except: what the body raises leaves it.
LeavesWrapperOnRaise(o) == o = "raise"

\* safe_callback of lines 209-216, 239-246 and 261-268: does an exception of
\* the callback body leave the wrapper? No: except Exception prints it.
LeavesWrapper(o) == FALSE

\* Tk runs the next callback run r has handed to root.after, in the order
\* they were handed over: the progress updates, then the completion.
DeliverCallback(r, o) ==
    /\ uiAlive
    /\ delivered[r] < Len(progress[r]) + Len(completions[r])
    /\ delivered' = [delivered EXCEPT ![r] = @ + 1]
    /\ invoked' = [invoked EXCEPT ![r] =
                      IF delivered[r] >= Len(progress[r]) THEN @ + 1 ELSE @]
    /\ sinkRaised' = [sinkRaised EXCEPT ![r] = @ \/ o = "raise"]
    /\ leftWrapper' = [leftWrapper EXCEPT ![r] = @ \/ LeavesWrapper(o)]
    /\ UNCHANGED <<engineVars, apiVars, restVars>>

Next ==
    \/ \E r \in Runs, cs \in TaskLists, bs \in BatchSizes : Submit(r, cs, bs)
    \/ CancelProcessing
    \/ DestroyUI
    \/ \E r \in Runs : Start(r)
    \/ \E r \in Runs : BatchCheck(r)
    \/ \E r \in Runs : CellCheck(r)
    \/ \E r \in Runs, p \in 1..(MaxCells + 1), o \in Outcomes : ExecutorDone(r, p, o)
    \/ \E r \in Runs : ResumeCell(r)
    \/ \E r \in Runs : NextCell(r)
    \/ \E r \in Runs : NextBatch(r)
    \/ \E r \in Runs : Final(r)
    \/ \E r \in Runs : DeliverCancel(r)

Spec == Init /\ [][Next]_vars

\* The event loop runs every step that is ready (the first step of a
\* scheduled coroutine, the continuation of the running one, a timer that has
\* fired, a queued Task.cancel), and every process_single_cell call returns.
LoopFairness ==
    \A r \in Runs :
        /\ WF_vars(Start(r))
        /\ WF_vars(BatchCheck(r))
        /\ WF_vars(CellCheck(r))
        /\ WF_vars(\E p \in 1..(MaxCells + 1), o \in Outcomes : ExecutorDone(r, p, o))
        /\ WF_vars(ResumeCell(r))
        /\ WF_vars(NextCell(r))
        /\ WF_vars(NextBatch(r))
        /\ WF_vars(Final(r))
        /\ WF_vars(DeliverCancel(r))

\* The engine under a fair event loop and a client whose calls return.
SpecFair == Init /\ [][Next]_vars /\ LoopFairness

\* One run of the engine together with Tk's loop running its callbacks.
NextSinks ==
    \/ \E cs \in TaskLists, bs \in BatchSizes : Submit(1, cs, bs)
    \/ CancelProcessing
    \/ DestroyUI
    \/ Start(1)
    \/ BatchCheck(1)
    \/ CellCheck(1)
    \/ \E p \in 1..(MaxCells + 1), o \in Outcomes : ExecutorDone(1, p, o)
    \/ ResumeCell(1)
    \/ NextCell(1)
    \/ NextBatch(1)
    \/ Final(1)
    \/ DeliverCancel(1)
    \/ \E o \in SinkOutcomes : DeliverCallback(1, o)

SpecSinks == Init /\ [][NextSinks]_vars

\* ------------------------------------------- the transformation client
\* (src/app/services/api_manager.py, src/app/services/ollama_api_manager.py)
\* Calls are made one at a time. A call takes two steps: up to the backend
\* request (initialization, rate-limit check, prompt), and from the backend's
\* answer to the return; the clock may advance in between.

\* The rolling window of _check_rate_limit and _increment_request_count.
Window == 60

\* Seconds by which the clock advances between two steps.
TimeSteps == {30, 31}

\* Text is a sequence of characters; str.strip() removes the blanks at both
\* ends.
RECURSIVE LStrip(_)
LStrip(t) == IF t # <<>> /\ Head(t) = " " THEN LStrip(Tail(t)) ELSE t

RECURSIVE RStrip(_)
RStrip(t) ==
    IF t # <<>> /\ t[Len(t)] = " " THEN RStrip(SubSeq(t, 1, Len(t) - 1)) ELSE t

Strip(t) == RStrip(LStrip(t))

\* context_data: None, or a dict as the sequence of its items.
NoContext == [given |-> FALSE, items |-> <<>>]
Dict(items) == [given |-> TRUE, items |-> items]

Contexts ==
    {NoContext, Dict(<<>>), Dict(<<[key |-> "k1", value |-> "v1"]>>),
     Dict(<<[key |-> "k1", value |-> "v1"], [key |-> "k2", value |-> "v2"]>>)}

\* The bullet lines of lines 190-191 (api_manager.py) and 119-120
\* (ollama_api_manager.py): "- {key}: {value}\n" per item, in item order.
RECURSIVE ContextLines(_)
ContextLines(items) ==
    IF items = <<>> THEN <<>>
    ELSE <<"- ", Head(items).key, ": ", Head(items).value, "\n">>
            \o ContextLines(Tail(items))

\* A prompt with the context section in front of the cell content.
FormatPromptContextFirst(context_data) ==
    IF context_data.given /\ Len(context_data.items) > 0
       THEN <<"user_prompt", "\n\nContext information:\n">>
               \o ContextLines(context_data.items)
               \o <<"\n\nCell content: ", "cell_content">>
       ELSE <<"user_prompt", "\n\nCell content: ", "cell_content">>

\* formatted_prompt of lines 185-192 (api_manager.py) and 114-121
\* (ollama_api_manager.py), as the sequence of its pieces.
FormatPrompt(context_data) ==
    <<"user_prompt", "\n\nCell content: ", "cell_content">>
        \o (IF context_data.given /\ Len(context_data.items) > 0
               THEN <<"\n\nContext information:\n">>
                       \o ContextLines(context_data.items)
               ELSE <<>>)
\* A rate-limit check that resets the window already at 60 seconds.
CheckRateLimitAtWindow(count, start, limit, t) ==
    IF t - start >= Window
       THEN [allowed |-> TRUE, count |-> 0, start |-> t]
       ELSE [allowed |-> count < limit, count |-> count, start |-> start]

\* A rate-limit check that lets a call through with the count at the limit.
CheckRateLimitOffByOne(count, start, limit, t) ==
    IF t - start > Window
       THEN [allowed |-> TRUE, count |-> 0, start |-> t]
       ELSE [allowed |-> count <= limit, count |-> count, start |-> start]

\* _check_rate_limit (api_manager.py 231-241, ollama_api_manager.py 206-216)
\* at time t: its return value and the limiter state it leaves.
CheckRateLimit(count, start, limit, t) ==
    IF t - start > Window
       THEN [allowed |-> TRUE, count |-> 0, start |-> t]
       ELSE [allowed |-> count < limit, count |-> count, start |-> start]

\* An increment that counts a request twice.
IncrementRequestCountTwice(count, start, t) ==
    IF t - start > Window
       THEN [count |-> 1, start |-> t]
       ELSE [count |-> count + 2, start |-> start]

\* _increment_request_count (api_manager.py 221-229, ollama_api_manager.py
\* 196-204) at time t.
IncrementRequestCount(count, start, t) ==
    IF t - start > Window
       THEN [count |-> 1, start |-> t]
       ELSE [count |-> count + 1, start |-> start]

\* Result texts of the backend.
Contents == {<<"a">>, <<" ", "a", " ">>}

\* What client.chat.completions.create does: it raises (RateLimitError,
\* APIError, another exception) or returns a response, which may lack its
\* choices or its content.
OpenAIResponses ==
    {[kind |-> "ok", content |-> c] : c \in Contents}
        \cup {[kind |-> k, content |-> <<>>] :
                 k \in {"RateLimitError", "APIError", "Exception",
                        "no_choices", "no_content"}}

\* The lines response.iter_lines() yields: a JSON object with or without a
\* 'response' fragment and a 'done' mark, an empty line, a line that is not
\* JSON, a JSON value that is not an object.
JsonLine(fragment, done) ==
    [kind |-> "json", keyed |-> TRUE, response |-> fragment, done |-> done]
Unkeyed(kind, done) ==
    [kind |-> kind, keyed |-> FALSE, response |-> <<>>, done |-> done]

StreamLines ==
    {JsonLine(<<" ", "a">>, FALSE), JsonLine(<<"b", " ">>, TRUE),
     Unkeyed("json", TRUE), Unkeyed("empty", FALSE),
     Unkeyed("garbage", FALSE), Unkeyed("nonobject", FALSE)}

Streams == UNION {[1..n -> StreamLines] : n \in 0..MaxLines}

\* What requests.post does: it raises, or answers with a status and a stream.
OllamaResponses ==
    {[kind |-> "raise", status |-> 0, lines |-> <<>>]}
        \cup {[kind |-> "http", status |-> 500, lines |-> <<>>]}
        \cup {[kind |-> "http", status |-> 200, lines |-> ls] : ls \in Streams}

\* A reader that goes on after the line marked done.
OnLineIgnoresDone(l, acc) ==
    CASE l.kind \in {"empty", "garbage"} -> [next |-> "go", acc |-> acc]
      [] l.kind = "nonobject" -> [next |-> "raise", acc |-> acc]
      [] l.kind = "json" ->
           [next |-> "go", acc |-> IF l.keyed THEN acc \o l.response ELSE acc]

\* A reader that lets the JSONDecodeError of a line out.
OnLineRaisesOnGarbage(l, acc) ==
    CASE l.kind = "empty" -> [next |-> "go", acc |-> acc]
      [] l.kind \in {"garbage", "nonobject"} -> [next |-> "raise", acc |-> acc]
      [] l.kind = "json" ->
           [next |-> IF l.done THEN "stop" ELSE "go",
            acc |-> IF l.keyed THEN acc \o l.response ELSE acc]

\* One turn of the loop of lines 183-194 (ollama_api_manager.py) with the
\* `result += chunk` of line 127: an empty line is passed over (line 184), a
\* JSONDecodeError is logged (lines 193-194), a JSON value that is no object
\* raises out of the generator, a fragment is added and the loop is left at a
\* line marked done (lines 188-192).
OnLine(l, acc) ==
    CASE l.kind \in {"empty", "garbage"} -> [next |-> "go", acc |-> acc]
      [] l.kind = "nonobject" -> [next |-> "raise", acc |-> acc]
      [] l.kind = "json" ->
           [next |-> IF l.done THEN "stop" ELSE "go",
            acc |-> IF l.keyed THEN acc \o l.response ELSE acc]

\* _generate_streaming consumed by the loop of lines 125-127
\* (ollama_api_manager.py 183-194): the text accumulated, or an exception.
RECURSIVE Consume(_, _)
Consume(lines, acc) ==
    IF lines = <<>> THEN [raised |-> FALSE, text |-> acc]
    ELSE LET s == OnLine(Head(lines), acc) IN
         CASE s.next = "raise" -> [raised |-> TRUE, text |-> acc]
           [] s.next = "stop"  -> [raised |-> FALSE, text |-> s.acc]
           [] s.next = "go"    -> Consume(Tail(lines), s.acc)

\* Is the line a JSON object?
IsJson(l) == l.kind = "json"

\* Does the stream hold a JSON value that is not an object, at or before its
\* first line marked done?
RECURSIVE HasNonObject(_)
HasNonObject(lines) ==
    IF lines = <<>> THEN FALSE
    ELSE IF Head(lines).kind = "nonobject" THEN TRUE
    ELSE IF Head(lines).kind = "json" /\ Head(lines).done THEN FALSE
    ELSE HasNonObject(Tail(lines))

\* The backend's answer seen from outside the client: "good" is a well-formed
\* successful answer, "fault" a rate-limit error, API error, transport error,
\* non-200 status or malformed response, "other" a stream with lines to skip.
Classify(variant, rsp) ==
    IF variant = "openai"
       THEN IF rsp.kind = "ok" THEN "good" ELSE "fault"
       ELSE IF rsp.kind = "raise" \/ rsp.status # 200 \/ HasNonObject(rsp.lines)
               THEN "fault"
               ELSE IF \A i \in 1..Len(rsp.lines) : IsJson(rsp.lines[i])
                       THEN "good" ELSE "other"

\* A call that never turns the limiter's answer into a rejection.
RejectedNever(chk) == FALSE

\* Lines 182-183 (api_manager.py) and 111-112 (ollama_api_manager.py):
\* the call is rejected when _check_rate_limit returns False.
Rejected(chk) == ~chk.allowed

\* A client whose handlers let a transport error through.
UncaughtTransport(kind) == kind \in {"Exception", "raise"}

\* The except clauses of lines 213-219 (api_manager.py) and 134-136
\* (ollama_api_manager.py) end in `except Exception`: nothing the backend
\* request or the reading of its answer raises leaves process_single_cell.
Uncaught(kind) == FALSE

\* _process_openai from the answer of chat.completions.create to its return
\* (lines 196-219): the tuple returned and whether line 207 was reached.
OpenAIReturn(rsp) ==
    CASE rsp.kind = "RateLimitError" ->
            [counted |-> FALSE, ret |-> Fail("Rate limit exceeded: e")]
      [] rsp.kind = "APIError" ->
            [counted |-> FALSE, ret |-> Fail("API Error: e")]
      [] rsp.kind = "Exception" ->
            [counted |-> FALSE, ret |-> Fail("Error: e")]
      [] rsp.kind \in {"no_choices", "no_content"} ->
            [counted |-> TRUE, ret |-> Fail("Error: e")]
      [] rsp.kind = "ok" ->
            [counted |-> TRUE, ret |-> Ok(Strip(rsp.content))]

\* OllamaAPIManager.process_single_cell from the answer of requests.post to
\* its return (lines 123-136 with _generate_streaming, lines 170-194).
OllamaReturn(rsp) ==
    IF rsp.kind = "raise" THEN [counted |-> FALSE, ret |-> Fail("Error: e")]
    ELSE IF rsp.status # 200
       THEN [counted |-> FALSE, ret |-> Fail("Error: API Error: status")]
    ELSE LET got == Consume(rsp.lines, <<>>) IN
         IF got.raised THEN [counted |-> FALSE, ret |-> Fail("Error: e")]
         ELSE [counted |-> TRUE, ret |-> Ok(Strip(got.text))]

\* The successes returned in the window that is open after a step.
Granted(success) ==
    IF request_start_time' # request_start_time
       THEN (IF success THEN 1 ELSE 0)
       ELSE call.granted + (IF success THEN 1 ELSE 0)

\* The backend requests dispatched in the window that is open after a step
\* (request: the step dispatches one).
Sent(request) ==
    IF request_start_time' # request_start_time
       THEN (IF request THEN 1 ELSE 0)
       ELSE call.sent + (IF request THEN 1 ELSE 0)

\* process_single_cell up to the backend request: the lazy initialization of
\* the hosted client (lines 177-179), the rate-limit check (lines 182-183,
\* 111-112) and the prompt (lines 185-192, 114-121). initOk tells whether the
\* OpenAI constructor of line 58 succeeds.
ApiBegin(context_data, initOk) ==
    /\ call.phase # "request"
    /\ call.n < MaxCalls
    /\ LET hosted == api_type = "openai"
           ready == IF hosted THEN client \/ (api_key # "" /\ initOk) ELSE TRUE
           chk == CheckRateLimit(request_count, request_start_time,
                                 max_requests_per_minute, now)
           base == [call EXCEPT !.n = call.n + 1, !.context = context_data,
                                !.prompt = <<>>, !.requests = 0,
                                !.raised = FALSE, !.backend = "none",
                                !.prevFault = (call.requests = 1
                                                 /\ ~call.ret.success)]
       IN  IF ~ready
              THEN /\ client' = client
                   /\ UNCHANGED <<request_count, request_start_time>>
                   /\ call' = [base EXCEPT !.phase = "done",
                                           !.ret = NotInitialized,
                                           !.checked = FALSE,
                                           !.steady = FALSE]
              ELSE /\ client' = IF hosted THEN TRUE ELSE client
                   /\ request_count' = chk.count
                   /\ request_start_time' = chk.start
                   /\ IF Rejected(chk)
                         THEN call' = [base EXCEPT !.phase = "done",
                                                  !.ret = RateLimited,
                                                  !.checked = TRUE,
                                                  !.granted = Granted(FALSE),
                                                  !.sent = Sent(FALSE)]
                         ELSE call' = [base EXCEPT
                                         !.phase = "request",
                                         !.ret = NoReturn,
                                         !.checked = TRUE,
                                         !.prompt = FormatPrompt(context_data),
                                         !.requests = 1,
                                         !.granted = Granted(FALSE),
                                         !.sent = Sent(TRUE)]
    /\ UNCHANGED <<api_type, api_key, max_requests_per_minute, now>>
    /\ UNCHANGED <<engineVars, sinkVars, restVars>>

\* process_single_cell from the backend's answer to its return.
ApiFinish(rsp) ==
    /\ call.phase = "request"
    /\ rsp \in (IF api_type = "openai" THEN OpenAIResponses ELSE OllamaResponses)
    /\ LET out == IF api_type = "openai" THEN OpenAIReturn(rsp)
                                         ELSE OllamaReturn(rsp)
           inc == IncrementRequestCount(request_count, request_start_time, now)
       IN  /\ request_count' = IF out.counted THEN inc.count ELSE request_count
           /\ request_start_time' =
                 IF out.counted THEN inc.start ELSE request_start_time
           /\ call' = [call EXCEPT
                         !.phase = "done",
                         !.ret = out.ret,
                         !.raised = Uncaught(rsp.kind),
                         !.backend = Classify(api_type, rsp),
                         !.steady = call.steady
                                      /\ Classify(api_type, rsp) = "good",
                         !.granted = Granted(out.ret.success),
                         !.sent = Sent(FALSE)]
    /\ UNCHANGED <<api_type, api_key, client, max_requests_per_minute, now>>
    /\ UNCHANGED <<engineVars, sinkVars, restVars>>

\* time.time() advances by d seconds.
Tick(d) ==
    /\ now + d <= MaxTime
    /\ now' = now + d
    /\ UNCHANGED <<api_type, api_key, client, request_count,
                   request_start_time, max_requests_per_minute, call>>
    /\ UNCHANGED <<engineVars, sinkVars, restVars>>

\* A client of either variant, with or without a key, constructed at time 0
\* and given its limit.
InitApi ==
    /\ EngineInit
    /\ SinkInit
    /\ RestInit
    /\ api_type \in {"openai", "ollama"}
    /\ api_key \in {"", "k"}
    /\ client \in (IF api_key = "" THEN {FALSE} ELSE BOOLEAN)
    /\ max_requests_per_minute \in 1..MaxLimit
    /\ request_count = 0
    /\ request_start_time = 0
    /\ now = 0
    /\ call = NoCall

NextApi ==
    \/ \E c \in Contexts, initOk \in BOOLEAN : ApiBegin(c, initOk)
    \/ \E rsp \in OpenAIResponses \cup OllamaResponses : ApiFinish(rsp)
    \/ \E d \in TimeSteps : Tick(d)

SpecApi == InitApi /\ [][NextApi]_vars

\* ------------------------------------- the local server's stream, by line
\* max_requests_per_minute as OllamaAPIManager.__init__ sets it (line 26).
OllamaDefaultLimit == 30

\* One turn of `for chunk in self._generate_streaming(...)`: the next line of
\* the response is taken and handled.
ReadLine ==
    /\ reader.pc = "reading"
    /\ reader.read < Len(response)
    /\ LET s == OnLine(response[reader.read + 1], reader.result)
       IN  reader' = [reader EXCEPT
                        !.read = @ + 1,
                        !.result = s.acc,
                        !.pc = CASE s.next = "go"    -> "reading"
                                 [] s.next = "stop"  -> "finished"
                                 [] s.next = "raise" -> "raised"]
    /\ UNCHANGED <<response, engineVars, sinkVars, apiVars, storeVars, configVars>>

\* The stream is exhausted: the generator returns.
EndOfStream ==
    /\ reader.pc = "reading"
    /\ reader.read = Len(response)
    /\ reader' = [reader EXCEPT !.pc = "finished"]
    /\ UNCHANGED <<response, engineVars, sinkVars, apiVars, storeVars, configVars>>

\* Lines 129-136: the request is counted and the trimmed text returned, or
\* the exception is turned into a failure.
StreamReturn ==
    /\ reader.pc \in {"finished", "raised"}
    /\ LET inc == IncrementRequestCount(request_count, request_start_time, now)
       IN  IF reader.pc = "finished"
              THEN /\ request_count' = inc.count
                   /\ request_start_time' = inc.start
                   /\ reader' = [reader EXCEPT !.pc = "returned",
                                               !.ret = Ok(Strip(reader.result))]
              ELSE /\ UNCHANGED <<request_count, request_start_time>>
                   /\ reader' = [reader EXCEPT !.pc = "returned",
                                               !.ret = Fail("Error: e")]
    /\ UNCHANGED <<response, api_type, api_key, client,
                   max_requests_per_minute, now, call, engineVars, sinkVars,
                   storeVars, configVars>>

\* A local-server call that passed the rate-limit check and whose request
\* was answered with status 200 and some stream.
InitStream ==
    /\ EngineInit
    /\ SinkInit
    /\ api_type = "ollama"
    /\ api_key = ""
    /\ client = FALSE
    /\ request_count = 0
    /\ request_start_time = 0
    /\ max_requests_per_minute = OllamaDefaultLimit
    /\ now = 0
    /\ call = NoCall
    /\ response \in Streams
    /\ reader = [NoReader EXCEPT !.pc = "reading"]
    /\ StoreInit
    /\ ConfigInit

NextStream == ReadLine \/ EndOfStream \/ StreamReturn

SpecStream == InitStream /\ [][NextStream]_vars

\* --------------------------------------------------------- the data store
\* Column names: two ordinary ones, the name get_range uses as a key of its
\* own (line 294), and one no table has.
ColumnNames == {"Name", "Age", "headers"}
Missing == "Zip"

\* The value of a cell as loaded from the file.
Loaded(row, col) ==
    CASE col = "Name"    -> <<"John", "Jane", "Joan", "Jack">>[row + 1]
      [] col = "Age"     -> <<"30", "25", "41", "52">>[row + 1]
      [] col = "headers" -> <<"h0", "h1", "h2", "h3">>[row + 1]

\* A DataFrame with a RangeIndex, as load_file leaves it (lines 44-74).
Table(columns, n) ==
    [loaded |-> TRUE, columns |-> columns,
     cells |-> [r \in 1..n |->
                  [c \in {columns[i] : i \in 1..Len(columns)} |-> Loaded(r - 1, c)]]]

ColumnLists == {<<"Name", "Age">>, <<"Name", "Age", "headers">>}

Tables == {Table(cs, n) : cs \in ColumnLists, n \in 0..MaxRows}

\* len(self.df) and `col in self.df.columns`.
NumRows(t) == Len(t.cells)
HasColumn(t, col) == \E i \in 1..Len(t.columns) : t.columns[i] = col

\* File paths by extension; "" stands for None.
FilePaths == {"", "book.xlsx", "book.xlsm"}

\* Extensions save_file writes (lines 109-112); for any other extension with
\* a dot in the name nothing is written (lines 113-117).
Written(path) == path = "book.xlsx"

\* update.get(key) of lines 214-216.
Get(update, key) == IF key \in DOMAIN update THEN update[key] ELSE None

\* The results handed to update_range: two that name a cell, and the ways
\* of naming no cell or no value.
UpdateChoices ==
    {[row |-> 0, col |-> "Name", result |-> "v1"],
     [row |-> 1, col |-> "Age", result |-> "v2"],
     [row |-> MaxRows, col |-> "Name", result |-> "v1"],
     [row |-> -1, col |-> "Name", result |-> "v1"],
     [row |-> 0, col |-> Missing, result |-> "v1"],
     [row |-> 0, col |-> "Name", result |-> None],
     [col |-> "Name", result |-> "v1"]}

UpdateLists == UNION {[1..n -> UpdateChoices] : n \in 0..MaxUpdates}

\* The columns for which the assignment of line 188 raises (a value the
\* column's dtype does not take).
WriteFaults == {{}, {"Age"}}

\* An update_cell that writes without looking at the row.
UpdateCellAnyRow(t, row, col, value, faulty) ==
    IF ~t.loaded \/ row < 0 \/ ~HasColumn(t, col)
       THEN [ok |-> FALSE, df |-> t]
       ELSE IF col \in faulty \/ row >= NumRows(t)
               THEN [ok |-> row >= NumRows(t), df |-> t]
               ELSE [ok |-> TRUE, df |-> [t EXCEPT !.cells[row + 1][col] = value]]

\* An update_cell that leaves a cell alone once it has been written.
UpdateCellFirstWins(t, row, col, value, faulty) ==
    IF ~t.loaded \/ row < 0 \/ row >= NumRows(t) \/ ~HasColumn(t, col)
       THEN [ok |-> FALSE, df |-> t]
       ELSE IF col \in faulty
               THEN [ok |-> FALSE, df |-> t]
               ELSE [ok |-> TRUE,
                     df |-> IF t.cells[row + 1][col] = Loaded(row, col)
                               THEN [t EXCEPT !.cells[row + 1][col] = value]
                               ELSE t]

\* update_cell, lines 182-193: whether it returned True, and the table.
UpdateCell(t, row, col, value, faulty) ==
    IF ~t.loaded \/ row < 0 \/ row >= NumRows(t) \/ ~HasColumn(t, col)
       THEN [ok |-> FALSE, df |-> t]
       ELSE IF col \in faulty
               THEN [ok |-> FALSE, df |-> t]
               ELSE [ok |-> TRUE, df |-> [t EXCEPT !.cells[row + 1][col] = value]]

\* The loop of lines 213-225 over the updates from position i on; st holds
\* the table, the dirty flag and the two counters.
RECURSIVE ApplyUpdates(_, _, _, _)
ApplyUpdates(updates, i, st, faulty) ==
    IF i > Len(updates) THEN st
    ELSE LET u == updates[i] IN
         IF "row" \notin DOMAIN u \/ "col" \notin DOMAIN u
               \/ Get(u, "result") = None
            THEN ApplyUpdates(updates, i + 1,
                              [st EXCEPT !.error_count = @ + 1], faulty)
            ELSE LET w == UpdateCell(st.df, u.row, u.col, u.result, faulty) IN
                 IF w.ok
                    THEN ApplyUpdates(updates, i + 1,
                                      [st EXCEPT !.df = w.df,
                                                 !.modified = TRUE,
                                                 !.success_count = @ + 1],
                                      faulty)
                    ELSE ApplyUpdates(updates, i + 1,
                                      [st EXCEPT !.error_count = @ + 1], faulty)

\* An auto-save that does not ask whether any write was applied.
ShouldSaveAlways(auto_save, path, success_count) == auto_save /\ path # ""

\* The condition of line 230, inside `if success_count > 0` of line 226.
ShouldSave(auto_save, path, success_count) ==
    success_count > 0 /\ auto_save /\ path # ""

\* A save whose failure marks the store clean all the same.
SaveFileCleansOnFailure(t, path, flag, file, writeOk) ==
    IF ~t.loaded \/ path = ""
       THEN [ok |-> FALSE, modified |-> flag, disk |-> file]
       ELSE IF Written(path) /\ ~writeOk
               THEN [ok |-> FALSE, modified |-> FALSE, disk |-> file]
               ELSE [ok |-> TRUE, modified |-> FALSE,
                     disk |-> IF Written(path) THEN t ELSE file]

\* save_file() with no argument, lines 88-130: its success flag, the dirty
\* flag and the file afterwards. writeOk: to_excel / to_csv does not raise.
SaveFile(t, path, flag, file, writeOk) ==
    IF ~t.loaded \/ path = ""
       THEN [ok |-> FALSE, modified |-> flag, disk |-> file]
       ELSE IF Written(path) /\ ~writeOk
               THEN [ok |-> FALSE, modified |-> flag, disk |-> file]
               ELSE [ok |-> TRUE, modified |-> FALSE,
                     disk |-> IF Written(path) THEN t ELSE file]

\* update_range, lines 195-241.
UpdateRange(updates, auto_save, faulty, writeOk) ==
    /\ op.n < MaxOps
    /\ IF ~df.loaded
          THEN /\ UNCHANGED <<df, modified, disk>>
               /\ op' = [n |-> op.n + 1, kind |-> "update_range",
                         updates |-> updates, auto_save |-> auto_save,
                         before |-> df, wasModified |-> modified,
                         wasDisk |-> disk, faulty |-> faulty,
                         applied |-> 0, failed |-> Len(updates),
                         save |-> "none", raised |-> FALSE]
          ELSE LET st == ApplyUpdates(updates, 1,
                                      [df |-> df, modified |-> modified,
                                       success_count |-> 0, error_count |-> 0],
                                      faulty)
                   dirty == IF st.success_count > 0 THEN TRUE ELSE st.modified
                   saving == ShouldSave(auto_save, file_path, st.success_count)
                   sv == SaveFile(st.df, file_path, dirty, disk, writeOk)
               IN  /\ df' = st.df
                   /\ modified' = IF saving THEN sv.modified ELSE dirty
                   /\ disk' = IF saving THEN sv.disk ELSE disk
                   /\ op' = [n |-> op.n + 1, kind |-> "update_range",
                             updates |-> updates, auto_save |-> auto_save,
                             before |-> df, wasModified |-> modified,
                             wasDisk |-> disk, faulty |-> faulty,
                             applied |-> st.success_count,
                             failed |-> st.error_count,
                             save |-> IF ~saving THEN "none"
                                      ELSE IF sv.ok THEN "ok" ELSE "failed",
                             raised |-> FALSE]
    /\ UNCHANGED <<file_path, engineVars, sinkVars, apiVars, streamVars,
                   configVars>>

\* A single edit through update_cell (main_window.py line 1395).
EditCell(row, col, value, faulty) ==
    /\ op.n < MaxOps
    /\ LET w == UpdateCell(df, row, col, value, faulty)
       IN  /\ df' = w.df
           /\ modified' = IF w.ok THEN TRUE ELSE modified
           /\ op' = [n |-> op.n + 1, kind |-> "update_cell", ok |-> w.ok]
    /\ UNCHANGED <<file_path, disk, engineVars, sinkVars, apiVars, streamVars,
                   configVars>>

\* A table was loaded (df, file_path set, not modified), or a table was
\* assigned to a manager without a file, or nothing was loaded.
InitStore ==
    /\ EngineInit
    /\ SinkInit
    /\ ApiDefault
    /\ StreamIdle
    /\ ConfigInit
    /\ df \in {NoTable} \cup {Table(<<"Name", "Age">>, n) : n \in 0..MaxRows}
    /\ file_path \in (IF df.loaded THEN FilePaths ELSE {""})
    /\ modified = FALSE
    /\ disk = (IF file_path = "" THEN NoTable ELSE df)
    /\ op = NoOp

NextStore ==
    \/ \E updates \in UpdateLists, auto_save \in BOOLEAN,
          faulty \in WriteFaults, writeOk \in BOOLEAN :
            UpdateRange(updates, auto_save, faulty, writeOk)
    \/ \E faulty \in WriteFaults : EditCell(0, "Age", "v0", faulty)

SpecStore == InitStore /\ [][NextStore]_vars

\* ------------------------------------------------------------- get_range
\* An entry of a task's context_data: the value of a context column, or the
\* 'headers' dict of line 294 (a dict, so its names are a set).
CellValue(key, v) == [key |-> key, kind |-> "value", value |-> v, names |-> {}]
Headers(names) ==
    [key |-> "headers", kind |-> "headers", value |-> "", names |-> names]

\* context_data[key] = entry on a dict kept as the sequence of its items: an
\* existing key keeps its place and takes the new entry.
Put(items, e) ==
    IF \E i \in 1..Len(items) : items[i].key = e.key
       THEN [i \in 1..Len(items) |->
                IF items[i].key = e.key THEN e ELSE items[i]]
       ELSE Append(items, e)

InList(list, x) == \E i \in 1..Len(list) : list[i] = x
Names(list) == {list[i] : i \in 1..Len(list)}

\* valid_columns, line 269, and valid_context_columns, lines 274-276.
ValidColumns(t, columns) == SelectSeq(columns, LAMBDA c : HasColumn(t, c))
ValidContextColumns(t, context_columns, valid) ==
    SelectSeq(context_columns,
              LAMBDA c : HasColumn(t, c) /\ ~InList(valid, c))

\* The loop of lines 290-291 over the first i context columns.
RECURSIVE ContextItems(_, _, _, _)
ContextItems(t, row, vctx, i) ==
    IF i = 0 THEN <<>>
    ELSE Put(ContextItems(t, row, vctx, i - 1),
             CellValue(vctx[i], t.cells[row + 1][vctx[i]]))

\* cell_data of lines 282-297; context_data <<>> stands for no such key.
CellData(t, row, col, valid, vctx) ==
    [row |-> row, col |-> col, content |-> t.cells[row + 1][col],
     context_data |->
        IF vctx = <<>> THEN <<>>
        ELSE Put(ContextItems(t, row, vctx, Len(vctx)),
                 Headers(Names(valid \o vctx)))]

\* The inner loop of line 281 over the first k valid columns.
RECURSIVE RowCells(_, _, _, _, _)
RowCells(t, row, valid, vctx, k) ==
    IF k = 0 THEN <<>>
    ELSE Append(RowCells(t, row, valid, vctx, k - 1),
                CellData(t, row, valid[k], valid, vctx))

ResultColumnMajor(t, lo, hi, valid, vctx) ==
    LET n == IF hi > lo THEN hi - lo ELSE 0
    IN  [i \in 1..(n * Len(valid)) |->
            CellData(t, lo + ((i - 1) % n), valid[((i - 1) \div n) + 1],
                     valid, vctx)]

\* The loops of lines 279-299 over range(lo, hi).
RECURSIVE Result(_, _, _, _, _)
Result(t, lo, hi, valid, vctx) ==
    IF hi <= lo THEN <<>>
    ELSE Result(t, lo, hi - 1, valid, vctx)
            \o RowCells(t, hi - 1, valid, vctx, Len(valid))

\* The list get_range returns, lines 257-301. context_columns <<>> stands
\* for None and for the empty list, which line 275 treats alike.
GetRangeResult(t, start_row, end_row, columns, context_columns) ==
    IF ~t.loaded THEN <<>>
    ELSE LET lo == IF start_row < 0 THEN 0 ELSE start_row
             hi == IF end_row > NumRows(t) THEN NumRows(t) ELSE end_row
             valid == ValidColumns(t, columns)
             vctx == ValidContextColumns(t, context_columns, valid)
         IN  IF valid = <<>> THEN <<>>
             ELSE Result(t, lo, hi, valid, vctx)

\* get_range: reads the table and returns the tasks.
GetRange(start_row, end_row, columns, context_columns) ==
    /\ op.n < MaxOps
    /\ op' = [n |-> op.n + 1, kind |-> "get_range",
              start_row |-> start_row, end_row |-> end_row,
              columns |-> columns, context_columns |-> context_columns,
              before |-> df, wasModified |-> modified, wasDisk |-> disk,
              \* history: the update_range this call directly follows, if any
              since |-> IF op.kind = "update_range" THEN op ELSE NoOp,
              tasks |-> GetRangeResult(df, start_row, end_row, columns,
                                       context_columns)]
    /\ UNCHANGED <<df, file_path, modified, disk, engineVars, sinkVars,
                   apiVars, streamVars, configVars>>

\* The arguments tried: rows before, inside and past the table; requested
\* columns as typed by the user (lists of up to two names, repeated and
\* unknown names included); context columns.
StartRows == {-1, 0, 1}
EndRows == {-1, 1, MaxRows + 1}
ColumnRequests == UNION {[1..n -> {"Name", "Age", Missing}] : n \in 0..2}
ContextRequests ==
    {<<>>, <<"Age">>, <<"headers">>, <<"Name", "Age">>, <<Missing>>,
     <<"Age", "headers">>}

InitRange ==
    /\ EngineInit
    /\ SinkInit
    /\ ApiDefault
    /\ StreamIdle
    /\ ConfigInit
    /\ df \in {NoTable} \cup Tables
    /\ file_path = (IF df.loaded THEN "book.xlsx" ELSE "")
    /\ modified \in (IF df.loaded THEN BOOLEAN ELSE {FALSE})
    /\ disk = df
    /\ op = NoOp

NextRange ==
    \E start_row \in StartRows, end_row \in EndRows,
       columns \in ColumnRequests, context_columns \in ContextRequests :
        GetRange(start_row, end_row, columns, context_columns)

SpecRange == InitRange /\ [][NextRange]_vars

\* ------------------------------------------- update_range, then get_range
\* Results written back by a batch: two values for one cell, a second cell,
\* a row past the table and a result without a value.
WriteBacks ==
    {[row |-> 0, col |-> "Name", result |-> "v1"],
     [row |-> 0, col |-> "Name", result |-> "v3"],
     [row |-> 1, col |-> "Age", result |-> "v2"],
     [row |-> MaxRows, col |-> "Name", result |-> "v1"],
     [row |-> 0, col |-> "Name", result |-> None]}

WriteBackLists == UNION {[1..n -> WriteBacks] : n \in 0..MaxUpdates}

\* Whether the loop of lines 213-225 applies update u to table t: the keys
\* are there, the value is not None and update_cell returns True.
Applies(u, t, faulty) ==
    /\ "row" \in DOMAIN u
    /\ "col" \in DOMAIN u
    /\ Get(u, "result") # None
    /\ UpdateCell(t, u.row, u.col, u.result, faulty).ok

\* Update i is the last one of the list that is applied to its cell.
LastApplied(updates, t, faulty, i) ==
    /\ Applies(updates[i], t, faulty)
    /\ \A j \in (i + 1)..Len(updates) :
          ~(/\ Applies(updates[j], t, faulty)
            /\ updates[j].row = updates[i].row
            /\ updates[j].col = updates[i].col)

ReadColumns == {<<"Name">>, <<"Age", "Name">>, <<Missing>>}

InitWriteBack ==
    /\ EngineInit
    /\ SinkInit
    /\ ApiDefault
    /\ StreamIdle
    /\ ConfigInit
    /\ df \in {NoTable} \cup Tables
    /\ file_path = (IF df.loaded THEN "book.xlsx" ELSE "")
    /\ modified = FALSE
    /\ disk = df
    /\ op = NoOp

NextWriteBack ==
    \/ \E updates \in WriteBackLists, auto_save \in BOOLEAN,
          faulty \in WriteFaults, writeOk \in BOOLEAN :
            UpdateRange(updates, auto_save, faulty, writeOk)
    \/ \E start_row \in StartRows, end_row \in EndRows,
          columns \in ReadColumns, context_columns \in {<<>>, <<"Age">>} :
            GetRange(start_row, end_row, columns, context_columns)

SpecWriteBack == InitWriteBack /\ [][NextWriteBack]_vars

\* ---------------------------------------------------------- recent files
\* Paths of opened files.
PathNames == <<"a.xlsx", "b.xlsx", "c.csv", "d.csv", "e.xlsx", "f.csv">>
RecentPaths == {PathNames[i] : i \in 1..MaxPaths}

\* What the preferences dialog stores as 'max_recent_files': int() of the
\* text of the entry (preferences_dialog.py lines 459-462), which the
\* Spinbox's range 1..20 does not restrict when the text is typed.
RecentLimits == (-1)..MaxRecent

\* recent_files.remove(file_path) under `file_path in recent_files`: the
\* first occurrence goes (lines 211-212).
Remove(list, x) ==
    IF ~InList(list, x) THEN list
    ELSE LET k == CHOOSE i \in 1..Len(list) :
                     list[i] = x /\ \A j \in 1..(i - 1) : list[j] # x
         IN  [i \in 1..(Len(list) - 1) |->
                 IF i < k THEN list[i] ELSE list[i + 1]]

\* list[:n] of Python: the first n items, or all but the last -n.
Slice(list, n) ==
    LET m == IF n >= 0 THEN n ELSE Len(list) + n
        len == IF m < 0 THEN 0 ELSE IF m > Len(list) THEN Len(list) ELSE m
    IN  SubSeq(list, 1, len)

\* The list add_recent_file stores, lines 208-220.
Added(list, path, max_count) ==
    LET inserted == <<path>> \o Remove(list, path)
    IN  IF Len(inserted) > max_count THEN Slice(inserted, max_count)
        ELSE inserted

\* add_recent_file, lines 206-222.
AddRecentFile(path) ==
    /\ recent_files' = Added(recent_files, path, max_recent_files)
    /\ op' = [n |-> 0, kind |-> "add_recent_file", file_path |-> path,
              before |-> recent_files]
    /\ UNCHANGED <<max_recent_files, prompts, df, file_path, modified, disk,
                   engineVars, sinkVars, apiVars, streamVars>>

\* clear_recent_files, lines 224-226.
ClearRecentFiles ==
    /\ recent_files' = <<>>
    /\ op' = [n |-> 0, kind |-> "clear_recent_files"]
    /\ UNCHANGED <<max_recent_files, prompts, df, file_path, modified, disk,
                   engineVars, sinkVars, apiVars, streamVars>>

\* set('max_recent_files', value), lines 176-178, as the preferences dialog
\* calls it.
SetMaxRecentFiles(value) ==
    /\ max_recent_files' = value
    /\ op' = [n |-> 0, kind |-> "set"]
    /\ UNCHANGED <<recent_files, prompts, df, file_path, modified, disk,
                   engineVars, sinkVars, apiVars, streamVars>>

InitConfig ==
    /\ EngineInit
    /\ SinkInit
    /\ ApiDefault
    /\ StreamIdle
    /\ StoreInit
    /\ ConfigInit

NextConfig ==
    \/ \E path \in RecentPaths : AddRecentFile(path)
    \/ ClearRecentFiles
    \/ \E value \in RecentLimits : SetMaxRecentFiles(value)

SpecConfig == InitConfig /\ [][NextConfig]_vars

\* ------------------------------------------------------ prompt templates
\* A dict with one key set, and with one key deleted.
SetKey(dict, key, value) ==
    [k \in DOMAIN dict \cup {key} |-> IF k = key THEN value ELSE dict[k]]
DelKey(dict, key) == [k \in DOMAIN dict \ {key} |-> dict[k]]

\* Template names the user works with: a new one and two built-in ones.
TemplateNames == {"Custom", "Capitalize", "Extract Initials"}

\* add_prompt_template, lines 232-236.
AddPromptTemplate(name, prompt) ==
    /\ prompts' = SetKey(prompts, name, prompt)
    /\ op' = [n |-> 0, kind |-> "add_prompt_template"]
    /\ UNCHANGED <<recent_files, max_recent_files, df, file_path, modified,
                   disk, engineVars, sinkVars, apiVars, streamVars>>

\* remove_prompt_template, lines 238-243.
RemovePromptTemplate(name) ==
    /\ prompts' = IF name \in DOMAIN prompts THEN DelKey(prompts, name)
                  ELSE prompts
    /\ op' = [n |-> 0, kind |-> "remove_prompt_template"]
    /\ UNCHANGED <<recent_files, max_recent_files, df, file_path, modified,
                   disk, engineVars, sinkVars, apiVars, streamVars>>

\* restore_defaults, lines 245-352, on the keys modelled: 'max_recent_files'
\* is among the defaults of lines 253-278; 'recent_files' and 'prompts' are
\* kept (lines 287-288) or reset (lines 289-349).
RestoreDefaults(include_prompts) ==
    /\ max_recent_files' = DefaultMaxRecent
    /\ recent_files' = IF ~include_prompts THEN recent_files ELSE <<>>
    /\ prompts' = IF ~include_prompts THEN prompts
                  ELSE [name \in RestoredNames |-> BuiltInText(name)]
    /\ op' = [n |-> 0, kind |-> "restore_defaults",
              include_prompts |-> include_prompts]
    /\ UNCHANGED <<df, file_path, modified, disk, engineVars, sinkVars,
                   apiVars, streamVars>>

NextRestore ==
    \/ \E path \in RecentPaths : AddRecentFile(path)
    \/ \E name \in TemplateNames : AddPromptTemplate(name, CustomText)
    \/ \E name \in TemplateNames : RemovePromptTemplate(name)
    \/ \E include_prompts \in BOOLEAN : RestoreDefaults(include_prompts)

SpecRestore == InitConfig /\ [][NextRestore]_vars

\* ------------------------------------------------------------ vocabulary
\* The completion callback of run r was scheduled; Done(r) is its arguments.
Completed(r) == Len(completions[r]) >= 1
Done(r) == completions[r][1]

\* The status of the last progress update of run r.
LastStatus(r) == progress[r][Len(progress[r])].status

\* The claims on whole runs quantify over lists of Cell Tasks (each with its
\* 'row' and 'col') and over batch sizes >= 1.
ValidInput(r) == WellFormed(run[r].cells) /\ run[r].batch_size >= 1

Successes(results) == Cardinality({i \in 1..Len(results) : results[i].success})
Failures(results) == Cardinality({i \in 1..Len(results) : ~results[i].success})

\* C1: every submitted run schedules its completion callback exactly once,
\* however it ends (all cells done, cancelled, or a run-level exception):
\* never twice, and once when the coroutine has ended.
C1_CompletionExactlyOnce ==
    \A r \in Runs :
        /\ Len(completions[r]) <= 1
        /\ Ended(r) => Len(completions[r]) = 1

\* C2: a completion callback scheduled after a cancellation or after a
\* run-level exception receives one Cell Result for every cell counted:
\* len(results) = succeeded + failed.
C2_NoResultDropped ==
    \A r \in Runs :
        (Completed(r) /\ run[r].exit \in {"flag", "cancel", "error"})
            => Len(Done(r).results) = Done(r).success_count + Done(r).error_count

\* C3: a run that is never cancelled reports, at completion, as succeeded the
\* number of results with success = true, as failed the number with
\* success = false, and succeeded + failed = len(results) = len(input tasks),
\* for every batch size >= 1 and every pattern of successes and failures.
C3_CountConservation ==
    \A r \in Runs :
        (Completed(r) /\ ~sawCancel[r] /\ ValidInput(r)) =>
            /\ Done(r).success_count = Successes(Done(r).results)
            /\ Done(r).error_count = Failures(Done(r).results)
            /\ Done(r).success_count + Done(r).error_count = Len(Done(r).results)
            /\ Len(Done(r).results) = Len(run[r].cells)

\* A never-cancelled run has completed with one success and one failure.
C3_Witness ==
    \E r \in Runs :
        /\ Completed(r) /\ ~sawCancel[r] /\ ValidInput(r)
        /\ Done(r).success_count = 1
        /\ Done(r).error_count = 1

\* C4: a run that completes without cancellation delivers a result list as
\* long as its task list whose i-th result carries the row and col of the
\* i-th task, for every task list and every batch size >= 1.
C4_ResultsInTaskOrder ==
    \A r \in Runs :
        (Completed(r) /\ ~sawCancel[r] /\ ValidInput(r)) =>
            /\ Len(Done(r).results) = Len(run[r].cells)
            /\ \A i \in 1..Len(run[r].cells) :
                  /\ Done(r).results[i].row = run[r].cells[i].row
                  /\ Done(r).results[i].col = run[r].cells[i].col

\* A never-cancelled run of at least two batches has completed.
C4_Witness ==
    \E r \in Runs :
        /\ Completed(r) /\ ~sawCancel[r] /\ ValidInput(r)
        /\ NumBatches(run[r].cells, run[r].batch_size) >= 2
        /\ Len(Done(r).results) >= 2

\* The step of run r that takes the outcome of a failed call (it returned
\* success = false, or raised inside the per-cell wrapper) for a well-formed
\* cell while the root is alive.
FailedCellStep(r) ==
    /\ run[r].pc = "awaitCell"
    /\ ret[r] \in {"fail", "raise"}
    /\ run'[r].pc # "awaitCell"
    /\ run'[r].exit # "cancel"
    /\ uiAlive
    /\ HasKeys(run[r].cells[Position(run[r].batch_size, run[r].batch_idx,
                                      run[r].cell_idx)])

\* C5: a cell whose call fails yields a Cell Result with success = false and
\* an error message, is counted in failed, and never ends the run: the run
\* goes on to the pacing delay, and a never-cancelled run still processes
\* every later task.
C5_FailedCellDoesNotEndRun ==
    /\ [][\A r \in Runs : FailedCellStep(r) =>
            /\ run'[r].pc = "sleepCell"
            /\ run'[r].error_count = run[r].error_count + 1
            /\ run'[r].success_count = run[r].success_count
            /\ Len(run'[r].batch_results) = Len(run[r].batch_results) + 1
            /\ LET res == run'[r].batch_results[Len(run'[r].batch_results)]
               IN  ~res.success /\ res.error # None /\ res.result = None]_vars
    /\ [](\A r \in Runs :
            (Completed(r) /\ ~sawCancel[r] /\ ValidInput(r)) =>
                /\ Len(Done(r).results) = Len(run[r].cells)
                /\ Done(r).error_count = Failures(Done(r).results))

\* A never-cancelled run has completed whose first cell failed and whose
\* second cell was processed after it.
C5_Witness ==
    \E r \in Runs :
        /\ Completed(r) /\ ~sawCancel[r] /\ ValidInput(r)
        /\ Len(Done(r).results) >= 2
        /\ ~Done(r).results[1].success
        /\ Done(r).results[2].success

\* C6: once the flag has been set by cancel_processing during a run, that
\* run starts no further process_single_cell call: the task boundary that
\* follows reads the flag (a call the boundary let through before the flag was
\* set may complete).
C6_NoCallAfterCancel ==
    [][\A r \in Runs : Len(started'[r]) > Len(started[r]) => ~sawCancel[r]]_vars

\* C7: the final progress update carries 'Processing completed' when every
\* batch was iterated without the flag having been set, and 'Processing
\* cancelled' when the run left its loop early because of cancellation (the
\* flag observed at a boundary, or the task cancelled).
C7_FinalStatus ==
    \A r \in Runs :
        Completed(r) =>
            /\ (run[r].exit = "exhausted" /\ ~run[r].broke /\ ~sawCancel[r])
                  => LastStatus(r) = StCompleted
            /\ (run[r].broke \/ run[r].exit \in {"flag", "cancel"})
                  => LastStatus(r) = StCancelled

\* C8: no exception leaves _process_batches_async: whatever step raises,
\* the run emits a progress update carrying the exception message and then
\* schedules the completion callback once.
C8_NoExceptionEscapes ==
    \A r \in Runs :
        /\ run[r].pc # "escaped"
        /\ (Ended(r) /\ run[r].exit = "error") =>
              /\ Len(progress[r]) >= 1
              /\ LastStatus(r).kind = "Error"
              /\ LastStatus(r).msg # ""
              /\ Len(completions[r]) = 1

\* The results and counts run r owes its caller when each of its cells was
\* sent to the client once, in order.
OwnResults(r) ==
    /\ started[r] = [i \in 1..Len(run[r].cells) |-> i]
    /\ Len(completions[r]) = 1
    /\ Len(Done(r).results) = Len(run[r].cells)
    /\ \A i \in 1..Len(run[r].cells) :
          /\ Done(r).results[i].row = run[r].cells[i].row
          /\ Done(r).results[i].col = run[r].cells[i].col
    /\ Done(r).success_count = Successes(Done(r).results)
    /\ Done(r).error_count = Failures(Done(r).results)

\* C9: process_batches called while a run is in flight starts a second run
\* and leaves the first alone; when cancel_processing is never called both
\* runs process all of their own cells and each schedules its own completion
\* callback exactly once with its own results and counts.
C9_ConcurrentRunsIndependent ==
    /\ [][\A r, q \in Runs :
            (r # q /\ run[q].pc = "idle" /\ run'[q].pc = "new")
                => (run'[r] = run[r] /\ task'[r] = task[r])]_vars
    /\ []((cancelCalls = 0 /\ uiAlive) =>
            \A r \in Runs : (Ended(r) /\ ValidInput(r)) => OwnResults(r))

\* Both runs have ended, the second submitted while the first was in flight,
\* with result lists of different lengths and no cancel_processing call.
C9_Witness ==
    /\ cancelCalls = 0 /\ uiAlive
    /\ \A r \in Runs : Ended(r) /\ ValidInput(r) /\ OwnResults(r)
    /\ run[2].overlapped
    /\ Len(Done(1).results) = 2
    /\ Len(Done(2).results) = 1

\* C10: within one run at most one process_single_cell call is in flight,
\* and a call starts only when the results of all calls started before it
\* are recorded and the progress update of the last one is emitted.
C10_OneCallAtATime ==
    /\ [](\A r \in Runs : Cardinality(inflight[r]) <= 1)
    /\ [][\A r \in Runs : started'[r] # started[r] =>
            /\ inflight[r] = {}
            /\ run[r].processed = Len(started[r])
            /\ started[r] # <<>> =>
                  \E j \in 1..Len(progress[r]) :
                      /\ progress[r][j].processed = Len(started[r])
                      /\ progress[r][j].status.kind = "Processing batch cells"]_vars

\* The second call of a run is in flight, the first one recorded.
C10_Witness ==
    \E r \in Runs :
        /\ Len(started[r]) = 2
        /\ inflight[r] = {started[r][2]}
        /\ run[r].processed = 1
\* C11: in every progress update of a run processed = succeeded + failed and
\* processed <= total = len(input tasks), and from one progress update of the
\* run to the next none of the three counters decreases.
C11_ProgressCounters ==
    \A r \in Runs :
        \A j \in 1..Len(progress[r]) :
            LET u == progress[r][j] IN
            /\ u.processed = u.success + u.error
            /\ u.processed <= u.total
            /\ u.total = Len(run[r].cells)
            /\ \A k \in 1..(j - 1) :
                  /\ progress[r][k].processed <= u.processed
                  /\ progress[r][k].success <= u.success
                  /\ progress[r][k].error <= u.error

\* A run has emitted a progress update counting one success and one failure
\* after updates that counted less.
C11_Witness ==
    \E r \in Runs :
        /\ Len(progress[r]) >= 4
        /\ progress[r][Len(progress[r])].success = 1
        /\ progress[r][Len(progress[r])].error = 1
        /\ progress[r][1].processed = 0
\* The statuses of the three terminal paths.
TerminalKinds == {"Processing completed", "Processing cancelled", "Error"}

\* C12: on every terminal path (normal, cancelled, faulted) the final progress
\* update of a run is scheduled before its completion callback, and once the
\* completion callback is scheduled the run schedules no further progress
\* update.
C12_FinalUpdateBeforeCompletion ==
    /\ [](\A r \in Runs : Completed(r) =>
              /\ Len(progress[r]) >= 1
              /\ LastStatus(r).kind \in TerminalKinds
              /\ Done(r).after = Len(progress[r]))
    /\ [][\A r \in Runs : Completed(r) => progress'[r] = progress[r]]_vars

\* One run has completed through the CancelledError handler after a cell was
\* processed, another through the Exception handler.
C12_Witness ==
    \E r, q \in Runs :
        /\ Completed(r) /\ run[r].exit = "cancel" /\ Len(progress[r]) >= 3
        /\ Completed(q) /\ run[q].exit = "error"
\* All callbacks run r has handed to root.after have been run.
AllDelivered(r) == delivered[r] = Len(progress[r]) + Len(completions[r])

\* C13: an exception raised inside the caller's progress or completion
\* callback body is caught by the wrapper and changes nothing of the run: the
\* step that runs a callback leaves the engine's state alone, a never-cancelled
\* run one of whose callbacks raised still processes all its cells and
\* schedules its completion once, and the completion callback body is run
\* once when its turn comes.
C13_SinkExceptionsContained ==
    /\ [](\A r \in Runs : ~leftWrapper[r])
    /\ [][delivered' # delivered => UNCHANGED engineVars]_vars
    /\ [](\A r \in Runs :
            (sinkRaised[r] /\ Ended(r) /\ ValidInput(r) /\ ~sawCancel[r] /\ uiAlive)
                => OwnResults(r))
    /\ [](\A r \in Runs :
            /\ invoked[r] <= 1
            /\ (Completed(r) /\ AllDelivered(r)) => invoked[r] = 1)

\* A never-cancelled run of two cells has completed and its completion
\* callback body has run once, after a callback body of the run raised.
C13_Witness ==
    \E r \in Runs :
        /\ sinkRaised[r] /\ AllDelivered(r) /\ invoked[r] = 1
        /\ Completed(r) /\ ~sawCancel[r] /\ ValidInput(r)
        /\ Len(Done(r).results) = 2
\* C14: with max_requests_per_minute = N and a backend that has answered every
\* call well, no window grants more than N successes, a returned call either
\* succeeded or was refused with the limiter's message after the N successes
\* of its window, and inside the first 60 seconds of the client the k-th call
\* succeeds exactly when k <= N; in both variants.
C14_WindowQuota ==
    call.steady =>
        /\ call.granted <= max_requests_per_minute
        /\ call.phase = "done" =>
              \/ call.ret.success
              \/ /\ call.ret = RateLimited
                 /\ call.granted = max_requests_per_minute
        /\ (call.phase = "done" /\ now <= Window) =>
              (call.ret.success <=> call.n <= max_requests_per_minute)

C14_Witness ==
    /\ call.phase = "done"
    /\ call.steady
    /\ api_type = "ollama"
    /\ max_requests_per_minute = 2
    /\ call.n = 3
    /\ call.ret = RateLimited
    /\ now <= Window

\* C15: a step in which the rate-limit check runs more than 60 seconds after
\* request_start_time sets request_count to 0 and request_start_time to the
\* current time and lets the call through, whatever the count was; one in
\* which it runs at 60 seconds or less changes neither.
C15_LazyWindowReset ==
    [][(call'.n = call.n + 1 /\ call'.checked) =>
          IF now - request_start_time > Window
             THEN /\ request_count' = 0
                  /\ request_start_time' = now
                  /\ call'.phase = "request"
             ELSE /\ request_count' = request_count
                  /\ request_start_time' = request_start_time]_vars

\* The third call of a client with limit 2, checked at second 61 after two
\* successes: the count was at the limit and the window is reset.
C15_Witness ==
    /\ call.phase = "request"
    /\ call.steady
    /\ max_requests_per_minute = 2
    /\ call.n = 3
    /\ now = 61
    /\ request_count = 0
    /\ request_start_time = now

\* C16 as stated: in both variants every process_single_cell invocation
\* begins with the rate-limit check, whatever the client's initialization
\* state: the check runs (and resets an elapsed window), and with
\* request_count >= max_requests_per_minute inside the window the call returns
\* the rate-limit message and performs no backend request.
C16_RateLimitCheckFirst ==
    [][call'.n = call.n + 1 =>
          /\ call'.checked
          /\ now - request_start_time > Window => request_start_time' = now
          /\ (request_count >= max_requests_per_minute
                 /\ now - request_start_time <= Window) =>
                (call'.ret = RateLimited /\ call'.requests = 0)]_vars

\* C16, amended: the local-server client begins with the rate-limit check; the
\* hosted client begins with its lazy initialization, and when that fails it
\* returns 'not initialized' without the check, without a backend request and
\* with the limiter untouched; in every other invocation the check runs, and
\* with request_count >= max_requests_per_minute inside the window the call
\* returns the rate-limit message and performs no backend request.
C16_CheckAfterInitialization ==
    [][call'.n = call.n + 1 =>
          IF api_type = "openai" /\ ~client'
             THEN /\ call'.ret = NotInitialized
                  /\ call'.requests = 0
                  /\ ~call'.checked
                  /\ UNCHANGED <<request_count, request_start_time>>
             ELSE /\ call'.checked
                  /\ (request_count >= max_requests_per_minute
                         /\ now - request_start_time <= Window) =>
                        /\ call'.phase = "done"
                        /\ call'.ret = RateLimited
                        /\ call'.requests = 0
                        /\ UNCHANGED <<request_count, request_start_time>>]_vars

\* A hosted client refused a call at the limit.
C16_Witness ==
    /\ api_type = "openai"
    /\ client
    /\ call.phase = "done"
    /\ call.ret = RateLimited
    /\ call.requests = 0
    /\ request_count >= max_requests_per_minute

\* C17: a process_single_cell call that returns success leaves request_count
\* one higher than it was (one, when the window was reset in the call), and a
\* call that returns failure, for whatever reason, never leaves it higher; in
\* both variants.
C17_CountOnlyOnSuccess ==
    [][(call'.phase = "done" /\ call' # call) =>
          IF call'.ret.success
             THEN request_count' =
                    (IF request_start_time' # request_start_time
                        THEN 0 ELSE request_count) + 1
             ELSE request_count' <= request_count]_vars

\* C18: no process_single_cell call raises to its caller, in either variant:
\* every call returns a tuple, a failed call returns (false, None, message),
\* and every backend fault (rate-limit error, API error, transport error,
\* non-200 status, malformed response) ends as such a failure.
C18_NeverRaises ==
    call.phase = "done" =>
        /\ ~call.raised
        /\ call.backend = "fault" => ~call.ret.success
        /\ ~call.ret.success =>
              (~call.ret.result.some /\ call.ret.error # None)
        /\ call.ret.success =>
              (call.ret.result.some /\ call.ret.error = None)

\* A local-server call answered with status 500.
C18_Witness ==
    /\ api_type = "ollama"
    /\ call.phase = "done"
    /\ call.backend = "fault"
    /\ call.ret = Fail("Error: API Error: status")

\* C19: a process_single_cell invocation issues at most one backend request,
\* and none when the initialization or the rate-limit check rejects it; and
\* the invocation that follows one failed at the backend succeeds unless the
\* backend fails it again.
C19_OneRequestNoStickyFailure ==
    /\ call.requests <= 1
    /\ (call.phase = "done" /\ call.ret \in {NotInitialized, RateLimited}) =>
          call.requests = 0
    /\ (call.phase = "done" /\ call.prevFault /\ call.backend # "fault") =>
          call.ret.success

\* C20: the prompt sent to the backend begins with the user prompt and the cell
\* content; for a non-empty context mapping it goes on with the context
\* heading and one bullet line "- key: value" per entry, in entry order, and
\* nothing else; for an empty or absent context it ends after the cell
\* content; in both variants.
C20_PromptCarriesContext ==
    call.requests = 1 =>
        LET items == call.context.items
            k == IF call.context.given THEN Len(items) ELSE 0
            sent == call.prompt
        IN  /\ Len(sent) >= 3
            /\ SubSeq(sent, 1, 3)
                  = <<"user_prompt", "\n\nCell content: ", "cell_content">>
            /\ IF k > 0
                  THEN /\ Len(sent) = 4 + 5 * k
                       /\ sent[4] = "\n\nContext information:\n"
                       /\ \A i \in 1..k :
                             SubSeq(sent, 5 * i, 5 * i + 4)
                               = <<"- ", items[i].key, ": ", items[i].value, "\n">>
                  ELSE Len(sent) = 3

\* A local-server request whose prompt carries two context entries.
C20_Witness ==
    /\ api_type = "ollama"
    /\ call.requests = 1
    /\ call.context.given
    /\ Len(call.context.items) = 2
    /\ Len(call.prompt) = 14

\* The first line marked done, or the last line when none is.
FirstDone(lines) ==
    IF \E i \in 1..Len(lines) : IsJson(lines[i]) /\ lines[i].done
       THEN CHOOSE i \in 1..Len(lines) :
              /\ IsJson(lines[i]) /\ lines[i].done
              /\ \A j \in 1..(i - 1) : ~(IsJson(lines[j]) /\ lines[j].done)
       ELSE Len(lines)

\* The 'response' fragments of the first n lines, in stream order.
RECURSIVE Fragments(_, _)
Fragments(lines, n) ==
    IF n = 0 THEN <<>>
    ELSE Fragments(lines, n - 1)
            \o (IF IsJson(lines[n]) /\ lines[n].keyed THEN lines[n].response
                                                       ELSE <<>>)

\* A text has no whitespace at either end.
Trimmed(t) == t = <<>> \/ (t[1] # " " /\ t[Len(t)] # " ")

\* C21: a local-server call that returns success returns the trimmed
\* concatenation, in stream order, of the 'response' fragments of the lines up
\* to and including the first line marked done, and has read no line after it.
C21_TextUpToDone ==
    (reader.pc = "returned" /\ reader.ret.success) =>
        LET n == FirstDone(response) IN
        /\ reader.read = n
        /\ reader.ret.result.some
        /\ reader.ret.result.text = Strip(Fragments(response, n))
        /\ Trimmed(reader.ret.result.text)

\* A stream whose first line is marked done and is followed by a fragment.
C21_Witness ==
    /\ reader.pc = "returned"
    /\ reader.ret.success
    /\ Len(response) = 2
    /\ FirstDone(response) = 1
    /\ IsJson(response[2]) /\ response[2].keyed
    /\ reader.ret.result.text = <<"b">>

\* Is line i of the stream empty or not valid JSON?
Skipped(lines, i) == lines[i].kind \in {"empty", "garbage"}

\* C22: a local-server call whose stream holds an empty line or a line that is
\* no valid JSON (and no other malformed line before its done mark) returns
\* success with the concatenation of the fragments of the valid lines, and
\* the lines after the skipped one are still consumed, up to the done mark.
C22_BadLinesSkipped ==
    (/\ reader.pc = "returned"
     /\ \E i \in 1..FirstDone(response) : Skipped(response, i)
     /\ ~HasNonObject(response)) =>
        /\ reader.ret.success
        /\ reader.read = FirstDone(response)
        /\ reader.ret.result.text
              = Strip(Fragments(response, FirstDone(response)))

\* A line that is no JSON, then a fragment: the fragment is returned.
C22_Witness ==
    /\ reader.pc = "returned"
    /\ Len(response) = 2
    /\ response[1].kind = "garbage"
    /\ reader.read = 2
    /\ reader.ret = Ok(<<"a">>)

\* A result names a cell of the table t and carries a value.
Valid(t, u) ==
    /\ t.loaded
    /\ "row" \in DOMAIN u /\ "col" \in DOMAIN u /\ "result" \in DOMAIN u
    /\ u.result # None
    /\ u.row >= 0 /\ u.row < NumRows(t)
    /\ HasColumn(t, u.col)

\* The table after the results at the positions in `which` were written to
\* t, later results over earlier ones.
Patched(t, updates, which) ==
    [t EXCEPT !.cells =
        [r \in 1..NumRows(t) |->
           [c \in DOMAIN t.cells[r] |->
              LET hits == {i \in which : updates[i].row = r - 1
                                           /\ updates[i].col = c}
              IN  IF hits = {} THEN t.cells[r][c]
                  ELSE updates[CHOOSE i \in hits : \A j \in hits : j <= i].result]]]

\* C23 as stated: update_range applies a result exactly when its row lies in
\* [0, row count), its column exists and its value is present; all others
\* count as failed, applied + failed = len(results), and the table afterwards
\* is the table before with exactly the applied results written.
C23_AppliedExactlyWhenValid ==
    op.kind = "update_range" =>
        LET good == {i \in 1..Len(op.updates) : Valid(op.before, op.updates[i])}
        IN  /\ op.applied = Cardinality(good)
            /\ op.failed = Len(op.updates) - Cardinality(good)
            /\ df = Patched(op.before, op.updates, good)

\* C23, amended: a result is applied exactly when it names a cell, carries a
\* value and the write itself does not raise; every other result counts as
\* failed without stopping the remaining writes, applied + failed =
\* len(results), and only the cells named by applied results change.
C23_AppliedWhenValidAndWritten ==
    op.kind = "update_range" =>
        LET good == {i \in 1..Len(op.updates) :
                        /\ Valid(op.before, op.updates[i])
                        /\ op.updates[i].col \notin op.faulty}
        IN  /\ op.applied = Cardinality(good)
            /\ op.failed = Len(op.updates) - Cardinality(good)
            /\ op.applied + op.failed = Len(op.updates)
            /\ df = Patched(op.before, op.updates, good)
            /\ ~op.raised

\* A result beyond the last row, counted as failed, followed by one that is
\* applied.
C23_Witness ==
    /\ op.kind = "update_range"
    /\ Len(op.updates) = 2
    /\ "row" \in DOMAIN op.updates[1]
    /\ op.updates[1].row = MaxRows
    /\ op.applied = 1
    /\ op.failed = 1
    /\ df # op.before

\* C24: update_range attempts a save only when auto_save is true, a file path
\* exists and at least one write was applied; without a save attempt the
\* store is dirty after any applied write; and when no write was applied the
\* dirty flag and the file are as they were.
C24_SaveOnlyAfterWrites ==
    op.kind = "update_range" =>
        /\ op.save # "none" =>
              (op.auto_save /\ file_path # "" /\ op.applied > 0)
        /\ (op.save = "none" /\ op.applied > 0) => modified
        /\ op.applied = 0 =>
              (op.save = "none" /\ modified = op.wasModified
                 /\ disk = op.wasDisk)

\* Auto-save asked for on a store without a file path: the write is applied,
\* no save is attempted and the store is dirty.
C24_Witness ==
    /\ op.kind = "update_range"
    /\ op.auto_save
    /\ file_path = ""
    /\ op.applied > 0
    /\ op.save = "none"
    /\ modified

\* C25: when the auto-save of update_range fails, the writes applied in
\* memory stay, the returned counts are those of the writes alone, the store
\* is still dirty and no exception leaves update_range.
C25_FailedSaveKeepsWrites ==
    (op.kind = "update_range" /\ op.save = "failed") =>
        LET good == {i \in 1..Len(op.updates) :
                        /\ Valid(op.before, op.updates[i])
                        /\ Get(op.updates[i], "col") \notin op.faulty}
        IN  /\ df = Patched(op.before, op.updates, good)
            /\ op.applied = Cardinality(good)
            /\ op.failed = Len(op.updates) - Cardinality(good)
            /\ op.applied > 0
            /\ modified
            /\ ~op.raised

\* An auto-save that failed after a write changed the table.
C25_Witness ==
    /\ op.kind = "update_range"
    /\ op.save = "failed"
    /\ op.applied = 1
    /\ op.failed = 1
    /\ df # op.before
    /\ disk # df
    /\ modified

\* The rows get_range reads and the positions of the requested columns that
\* exist in the table.
RangeRows(t, start_row, end_row) ==
    {r \in 0..(NumRows(t) - 1) : start_row <= r /\ r < end_row}
Existing(t, columns) == {k \in 1..Len(columns) : HasColumn(t, columns[k])}

\* C26 as stated: exactly one task per (row, column) pair with the row in
\* the clamped range and the column an existing requested column, row-major
\* with the columns in the order given; nothing without a table or without
\* an existing requested column; the store is not changed.
C26_OneTaskPerPair ==
    op.kind = "get_range" =>
        LET t == op.before
            tasks == op.tasks
            rows == IF t.loaded
                       THEN RangeRows(t, op.start_row, op.end_row) ELSE {}
            cols == IF t.loaded
                       THEN {op.columns[k] : k \in Existing(t, op.columns)}
                       ELSE {}
            First(c) == CHOOSE k \in 1..Len(op.columns) :
                            /\ op.columns[k] = c
                            /\ \A j \in 1..(k - 1) : op.columns[j] # c
        IN  /\ \A i \in 1..Len(tasks) :
                  tasks[i].row \in rows /\ tasks[i].col \in cols
            /\ \A r \in rows, c \in cols :
                  Cardinality({i \in 1..Len(tasks) :
                                  tasks[i].row = r /\ tasks[i].col = c}) = 1
            /\ \A i, j \in 1..Len(tasks) :
                  i < j =>
                     \/ tasks[i].row < tasks[j].row
                     \/ /\ tasks[i].row = tasks[j].row
                        /\ First(tasks[i].col) <= First(tasks[j].col)
            /\ (cols = {}) => tasks = <<>>
            /\ df = op.before /\ modified = op.wasModified
            /\ disk = op.wasDisk

\* C26, amended: get_range returns one task per row of the clamped range
\* and per entry of the requested column list that names an existing
\* column (a name requested twice gives two tasks per row), row-major with
\* the entries in the order given, each carrying that cell's content;
\* nothing without a table or without such an entry; the store is not
\* changed.
C26_OneTaskPerRequestedEntry ==
    op.kind = "get_range" =>
        LET t == op.before
            tasks == op.tasks
            lo == IF op.start_row < 0 THEN 0 ELSE op.start_row
            rows == IF t.loaded
                       THEN RangeRows(t, op.start_row, op.end_row) ELSE {}
            P == IF t.loaded THEN Existing(t, op.columns) ELSE {}
            w == Cardinality(P)
            Rank(k) == Cardinality({j \in P : j <= k})
        IN  /\ Len(tasks) = Cardinality(rows) * w
            /\ \A r \in rows, k \in P :
                  LET cell == tasks[(r - lo) * w + Rank(k)]
                  IN  /\ cell.row = r
                      /\ cell.col = op.columns[k]
                      /\ cell.content = t.cells[r + 1][op.columns[k]]
            /\ df = op.before /\ modified = op.wasModified
            /\ disk = op.wasDisk

\* A request that starts before the table, ends past it and names the same
\* column twice, on a full table: two tasks per row.
C26_Witness ==
    /\ op.kind = "get_range"
    /\ op.start_row < 0
    /\ op.end_row > NumRows(op.before)
    /\ NumRows(op.before) = MaxRows
    /\ op.columns = <<"Name", "Name">>
    /\ Len(op.tasks) = 2 * MaxRows
    /\ op.tasks[2].row = 0

\* C27: every task of get_range carries, for each context column that
\* exists and is not processed, that column's value in the task's row under
\* the column's name, plus a 'headers' entry naming every processed and
\* context column, and nothing else; with no such context column the task
\* has no context_data.
C27_ContextData ==
    (op.kind = "get_range" /\ op.before.loaded) =>
        LET t == op.before
            valid == Names(ValidColumns(t, op.columns))
            ctx == {c \in Names(op.context_columns) :
                        HasColumn(t, c) /\ c \notin valid}
        IN  \A i \in 1..Len(op.tasks) :
              LET items == Names(op.tasks[i].context_data)
                  row == op.tasks[i].row
              IN  IF ctx = {} THEN items = {}
                  ELSE items = {CellValue(c, t.cells[row + 1][c]) : c \in ctx}
                                  \cup {Headers(valid \cup ctx)}

\* C28: every Cell Result handed to the completion callback has exactly one
\* of result and error populated: a result and no error when success is
\* true, no result and an error when success is false.
C28_ResultXorError ==
    \A r \in Runs : \A k \in 1..Len(completions[r]) :
        LET results == completions[r][k].results
        IN  \A i \in 1..Len(results) :
              IF results[i].success
                 THEN results[i].result # None /\ results[i].error = None
                 ELSE results[i].result = None /\ results[i].error # None

\* A completion that carries a successful and a failed Cell Result.
C28_Witness ==
    \E r \in Runs :
        /\ Completed(r)
        /\ Len(Done(r).results) = 2
        /\ Done(r).results[1].success
        /\ Done(r).results[1].result # None
        /\ ~Done(r).results[2].success
        /\ Done(r).results[2].error # None

\* C29: after add_recent_file the recent-files list has no path twice, has
\* at most max_recent_files entries and starts with the path just added;
\* adding a path that was in the list does not make the list longer.
C29_RecentFilesBounded ==
    op.kind = "add_recent_file" =>
        /\ \A i, j \in 1..Len(recent_files) :
              recent_files[i] = recent_files[j] => i = j
        /\ Len(recent_files) <= max_recent_files
        /\ Len(recent_files) >= 1
        /\ recent_files[1] = op.file_path
        /\ InList(op.before, op.file_path) =>
              Len(recent_files) <= Len(op.before)

\* C30: a 'Completed batch K of N' progress update is emitted only after
\* every task of batch K has been processed (the tasks are processed in
\* order, so by then the run has processed all the tasks of batches 1..K); a
\* batch that cancellation interrupted at a task boundary gets none.
C30_CompletedBatchIsComplete ==
    \A r \in Runs : \A i \in 1..Len(progress[r]) :
        LET u == progress[r][i]
            upTo == u.status.batch * run[r].batch_size
        IN  u.status.kind = "Completed batch" =>
                u.processed >= (IF upTo < Len(run[r].cells)
                                   THEN upTo ELSE Len(run[r].cells))

\* process_single_cell calls executing in the executor, over all runs.
Executing == {<<r, p>> \in Runs \X (1..(MaxCells + 1)) : p \in inflight[r]}

\* No run was submitted while another was in flight: each submission came
\* after the run before it had ended and handed over its completion callback.
Serialized == \A r \in Runs : ~run[r].overlapped

\* C31: when the caller serializes the runs, at most one process_single_cell
\* call is executing against the client at any time, also after a run that
\* ended by cancel_processing.
C31_OneCallWhenSerialized ==
    Serialized => Cardinality(Executing) <= 1

\* C32: a cancellation is not undone by a later submission: a run that was
\* in flight when cancel_processing was called starts no further
\* process_single_cell call and, unless an exception ends it, ends with
\* 'Processing cancelled', also when process_batches is called again before
\* the run has read the flag.
C32_CancelNotUndone ==
    /\ [](\A r \in Runs :
            (Completed(r) /\ sawCancel[r] /\ run[r].exit # "error") =>
                LastStatus(r) = StCancelled)
    /\ [][\A r \in Runs :
            sawCancel[r] => Len(started'[r]) = Len(started[r])]_vars

\* C33: a cancel_processing call does not affect a run submitted after it:
\* process_batches clears the flag, and a run during which cancel_processing
\* is not called and which no exception ends processes all its cells and
\* ends with 'Processing completed', whatever was cancelled before it.
C33_CancelDoesNotReachLaterRun ==
    /\ [][\A r \in Runs :
            (run[r].pc = "idle" /\ run'[r].pc = "new") =>
                ~processing_cancelled']_vars
    /\ [](\A r \in Runs :
            (Completed(r) /\ ~sawCancel[r] /\ run[r].exit # "error") =>
                /\ Len(started[r]) = Len(run[r].cells)
                /\ Len(Done(r).results) = Len(run[r].cells)
                /\ LastStatus(r) = StCompleted)

\* Run 1 was cancelled in flight and has ended; run 2, submitted after that,
\* has processed both its cells and completed.
C33_Witness ==
    /\ sawCancel[1] /\ Completed(1) /\ LastStatus(1) = StCancelled
    /\ ~run[2].overlapped /\ ~sawCancel[2]
    /\ Completed(2)
    /\ Len(run[2].cells) = 2
    /\ Len(Done(2).results) = 2
    /\ LastStatus(2) = StCompleted

\* C34: within one rate-limit window the client dispatches at most
\* max_requests_per_minute backend requests, whatever their outcomes, when
\* the calls are made one at a time.
C34_AtMostLimitPerWindow ==
    call.sent <= max_requests_per_minute

\* C35: with max_requests_per_minute >= 1 and calls made one at a time,
\* 0 <= request_count <= max_requests_per_minute in every reachable state,
\* across successes, failures and window resets.
C35_CountWithinLimit ==
    /\ request_count >= 0
    /\ request_count <= max_requests_per_minute

\* The count stands at the limit after a counted call that followed a window
\* reset and a failed call.
C35_Witness ==
    /\ request_count = max_requests_per_minute
    /\ max_requests_per_minute = MaxLimit
    /\ request_start_time > 0
    /\ call.phase = "done"
    /\ call.prevFault

\* A run submitted with an empty task list and a batch size of 1 or more.
EmptyRun(r) ==
    /\ run[r].pc # "idle"
    /\ Len(run[r].cells) = 0
    /\ run[r].batch_size >= 1

\* The progress update of a run without cells.
EmptyUpdate(status) ==
    [processed |-> 0, success |-> 0, error |-> 0, total |-> 0, status |-> status]

C37_RunTerminates ==
    /\ \A r \in Runs :
          (run[r].pc = "new" /\ run[r].batch_size >= 1) ~> Completed(r)
    /\ [](\A r \in Runs : Len(started[r]) <= Len(run[r].cells))

C39_RestoreResetsPrompts ==
    (op.kind = "restore_defaults" /\ op.include_prompts) =>
        /\ prompts = DefaultPrompts
        /\ recent_files = <<>>

====
